---- MODULE Spec2Model ----
(***************************************************************************)
(* Model of the conversation chat pipeline of fyp-backend:                 *)
(*   src/src/conversation_api.py  (chat, event_gen, title generation)      *)
(*   src/src/chat_store.py        (conversations and messages)             *)
(* A chat turn is the request handler `chat` followed by the async         *)
(* generator `event_gen`.  The generator is modelled position by position: *)
(* every `await` is a point where the awaited call returns, raises, or the *)
(* task is cancelled (asyncio.CancelledError); every `yield` is a point    *)
(* where the consumer asks for the next event or closes the generator      *)
(* (GeneratorExit).  Strings whose content matters (answers, questions)    *)
(* are sequences of characters.                                            *)
(***************************************************************************)
EXTENDS Integers, Sequences, FiniteSets, TLC

(* ------------------------------ bounds -------------------------------- *)
\* longest token stream the provider sends in one turn
MaxTokens == 2
\* how many times build_context is applied to one Evidence
MaxBuilds == 2
\* most lines the provider sends in one streamed response
MaxLines == 3

(* --------------------------- input domains ---------------------------- *)
Users == {"u1", "u2"}
\* conversation ids (uuid4 in the code), in the order they are drawn
ConvSeq == <<"c1">>
ConvIds == {ConvSeq[i] : i \in 1..Len(ConvSeq)}
\* request ids (uuid4 in the code), in the order they are drawn
ReqSeq == <<"r1", "r2">>
ReqIds == {ReqSeq[i] : i \in 1..Len(ReqSeq)}
NoUser == "nobody"
NoConv == "noconv"

\* characters of answers and questions; " " stands for any whitespace
Chars == {"a", "b", " "}
\* what str.strip() removes: blanks and line ends
Whitespace == {" ", "\n"}
\* the default placeholder title, "New chat"
NewChat == <<"N", "e", "w", " ", "c", "h", "a", "t">>
\* the character U+2026 (horizontal ellipsis) appended to a truncated question
Ellipsis == "U+2026"
\* the characters of the class removed from the end of a title by _clean_title
\* (non-ASCII ones are written by code point)
TitlePunctuation ==
  {"U+3002", "U+FF01", "U+FF1F", "!", "?", ",", "U+FF0C", ":", "U+FF1A",
   "U+FF1B", ";", "U+201C", "U+201D", "\"", "'", "(", ")", "[", "]", "{", "}"}
\* a question longer than this is truncated in the fallback title
FallbackTitleLen == 18
\* a cleaned title longer than this is truncated
CleanTitleLen == 30
\* persons and events are cut to their first 5 entries
NamesCap == 5
\* keywords are cut to their first 8 entries
KeywordsCap == 8
\* the query returns edges[0..80]
EdgeCap == 80
\* n copies of the character c
Rep(c, n) == [i \in 1..n |-> c]

\* Inputs of Spec: one chat turn, every input varied.
\* token deltas of the provider: non-empty strings (llm_client.py:155)
Tokens == {<<"a">>, <<"b">>, <<" ">>}
\* request contents: ChatRequest.content has min_length 1
Contents == {<<"a">>, <<"b">>}
\* ChatRequest.last_n_history values tried
LastNs == {1, 2}
\* titles a client may send when creating a conversation; <<>> is "no title"
CreateTitles == {<<>>, <<" ">> \o NewChat \o <<" ">>, <<"T", "0">>}
\* what the chat-completions endpoint may do with the title request: fail in
\* transport, answer non-2xx, answer a body without choices, or answer a text
TitleReplies ==
  { [status |-> "transport_error", content |-> <<>>],
    [status |-> "non_2xx", content |-> <<>>],
    [status |-> "malformed_body", content |-> <<>>],
    [status |-> "ok", content |-> <<>>],
    [status |-> "ok", content |-> NewChat],
    [status |-> "ok", content |-> <<"T", "1">>] }
\* the five fields of an entity pack
PackFields == {"persons", "locations", "orgs", "events", "keywords"}
\* the pack with every field empty
EmptyPack == [f \in PackFields |-> <<>>]
\* what the chat-completions endpoint may do with the extraction request: fail
\* in transport, answer non-2xx, answer a body without choices, or answer a
\* text that is no JSON, a JSON array, or a JSON object (obj: its fields)
ExtractReplies ==
  { [status |-> "transport_error", json |-> "none", obj |-> <<>>],
    [status |-> "non_2xx", json |-> "none", obj |-> <<>>],
    [status |-> "malformed_body", json |-> "none", obj |-> <<>>],
    [status |-> "ok", json |-> "invalid", obj |-> <<>>],
    [status |-> "ok", json |-> "object",
     obj |-> [persons |-> << <<"p">> >>, keywords |-> << <<"k">> >>]] }
\* what the graph store may do with the query of neo4j_retrieve: fail (the
\* driver raises), return no row, or return a row of edges and chunk ids
StoreFailures == {"unreachable", "query_failed"}
Stores ==
  { [status |-> "unreachable", edges |-> 0, chunks |-> <<>>],
    [status |-> "query_failed", edges |-> 0, chunks |-> <<>>],
    [status |-> "no_row", edges |-> 0, chunks |-> <<>>],
    [status |-> "row", edges |-> 1, chunks |-> <<"k1">>] }

\* Inputs of SpecTurns: two chat turns, concurrent or one after the other,
\* on the conversation of one owner.
TurnOwners == {"u1"}
TurnTokens == {<<"a">>}
\* the first request asks "a", every later one "b"
TurnContents(r) == IF r = ReqSeq[1] THEN {<<"a">>} ELSE {<<"b">>}
TurnLastNs == {2}
TurnCreateTitles == {<<>>, <<"T", "0">>}

\* Inputs of SpecExtract: extract_entities applied to a question and a reply.
ExtractQuestions == {<<"a">>, <<"a", " ", "b">>}
\* the JSON object whose fields are `present`, those in `blank` holding an
\* empty list (or null) and the others the one-element list ["v"]
ObjOf(present, blank) ==
  [f \in present |-> IF f \in blank THEN <<>> ELSE << <<"v">> >>]
ExtractCallReplies ==
  { [status |-> "transport_error", json |-> "none", obj |-> <<>>],
    [status |-> "non_2xx", json |-> "none", obj |-> <<>>],
    [status |-> "malformed_body", json |-> "none", obj |-> <<>>],
    [status |-> "ok", json |-> "invalid", obj |-> <<>>],
    [status |-> "ok", json |-> "array", obj |-> <<>>] }
  \cup { [status |-> "ok", json |-> "object", obj |-> ObjOf(present, blank)] :
            present \in SUBSET PackFields, blank \in SUBSET {"persons", "keywords"} }

\* Inputs of SpecRetrieve: neo4j_retrieve applied to a pack on a graph.
PersonNode(id, name, alias) ==
  [id |-> id, label |-> "Person", name |-> name, alias |-> alias,
   chunk_id |-> <<>>, chapter_id |-> <<>>, text |-> <<>>]
EventNode(id, name) ==
  [id |-> id, label |-> "Event", name |-> name, alias |-> <<>>,
   chunk_id |-> <<>>, chapter_id |-> <<>>, text |-> <<>>]
ChunkNode(id, chunk_id, text) ==
  [id |-> id, label |-> "Chunk", name |-> <<>>, alias |-> <<>>,
   chunk_id |-> chunk_id, chapter_id |-> <<"1">>, text |-> text]
Rel(src, type, dst) == [src |-> src, type |-> type, dst |-> dst]
\* persons A (alias Z), B, C and event E; A is a friend of B, B of C, C of A;
\* A-[HATES]->C is outside the whitelist; chunks 5 and 7 share a chunk_id,
\* chunk 8 has none
FamilyGraph ==
  [nodes |-> << PersonNode(1, <<"A">>, << <<"Z">> >>), PersonNode(2, <<"B">>, <<>>),
                PersonNode(3, <<"C">>, <<>>), EventNode(4, <<"E">>),
                ChunkNode(5, <<"1">>, <<"x", "k", "x">>),
                ChunkNode(6, <<"2">>, <<"B">>),
                ChunkNode(7, <<"1">>, <<"y">>),
                ChunkNode(8, <<>>, <<"k", " ", "E">>),
                ChunkNode(9, <<"3">>, <<"z">>) >>,
   rels |-> << Rel(1, "FRIEND_OF", 2), Rel(2, "FRIEND_OF", 3), Rel(1, "HATES", 3),
               Rel(3, "FRIEND_OF", 1), Rel(1, "SUPPORTED_BY", 5),
               Rel(4, "SUPPORTED_BY", 5), Rel(4, "SUPPORTED_BY", 7),
               Rel(2, "SUPPORTED_BY", 6), Rel(3, "SUPPORTED_BY", 9),
               Rel(3, "SUPPORTED_BY", 8) >>]
\* relations but no chunk
BareGraph ==
  [nodes |-> << PersonNode(1, <<"A">>, <<>>), PersonNode(2, <<"B">>, <<>>) >>,
   rels |-> << Rel(1, "LOVES", 2), Rel(2, "HATES", 1) >>]
\* person S with EdgeCap + 1 friends, and one chunk
StarGraph ==
  [nodes |-> [i \in 1..(EdgeCap + 3) |->
                IF i = 1 THEN PersonNode(1, <<"S">>, <<>>)
                ELSE IF i = EdgeCap + 3 THEN ChunkNode(i, <<"9">>, <<"S">>)
                ELSE PersonNode(i, Rep("n", i), <<>>)],
   rels |-> [i \in 1..(EdgeCap + 1) |-> Rel(1, "FRIEND_OF", i + 1)]]
Graphs == {"family", "bare"}
GraphOf(name) ==
  CASE name = "family" -> FamilyGraph
    [] name = "bare" -> BareGraph
    [] OTHER -> StarGraph
RetrievePersons ==
  { <<>>, << <<"A">> >>, << <<"A">>, <<"B">> >>, << <<" ">> >>,
    << <<" ", "A", " ">>, <<"A">> >>, << <<"Z">> >>, << <<"S">> >>,
    << <<" ">>, <<" ">>, <<" ">>, <<" ">>, <<" ">>, <<"A">> >> }
RetrieveEvents == { <<>>, << <<"E">> >>, << <<" ">> >> }
RetrieveKeywords == { <<>>, << <<"k">> >>, << <<" ">>, <<>> >> }
RetrieveOthers == { <<>>, << <<" ">> >> }
TopKs == {1, 2, 30}
MaxHops == {1, 2, 3}
\* every pack on the family and the bare graph, and the centre of the star
\* graph on its own
RetrieveInputs ==
  { [graph |-> g, ps |-> ps, es |-> es, ks |-> ks, os |-> os, k |-> k, h |-> h] :
      g \in Graphs, ps \in RetrievePersons, es \in RetrieveEvents,
      ks \in RetrieveKeywords, os \in RetrieveOthers, k \in TopKs, h \in MaxHops }
  \cup { [graph |-> "star", ps |-> << <<"S">> >>, es |-> <<>>, ks |-> <<>>,
          os |-> <<>>, k |-> 30, h |-> h] : h \in MaxHops }

\* Inputs of SpecContext: build_context applied to an Evidence.
\* edges: two that are rendered, one without from, one without rel, one
\* without to
ContextEdgePool ==
  { [from |-> <<"A">>, rel |-> "LOVES", to |-> <<"B">>],
    [from |-> <<"B">>, rel |-> "FRIEND_OF", to |-> <<"C">>],
    [from |-> <<>>, rel |-> "LOVES", to |-> <<"B">>],
    [from |-> <<"A">>, rel |-> "", to |-> <<>>],
    [from |-> <<"A">>, rel |-> "SUPPORTED_BY", to |-> <<>>] }
\* chunks: one with every field, one with none
ContextChunkPool ==
  { [chunk_id |-> <<"1">>, chapter_id |-> <<"2">>, text |-> <<"x", "\n", "y">>],
    [chunk_id |-> <<>>, chapter_id |-> <<>>, text |-> <<>>] }
\* the lists of at most two entries of a pool
UpToTwo(pool) ==
  {<<>>} \cup {<<a>> : a \in pool} \cup {<<a, b>> : a \in pool, b \in pool}
\* EdgeCap edges that are not rendered, followed by one that would be
LateEdge ==
  [i \in 1..(EdgeCap + 1) |->
     IF i <= EdgeCap THEN [from |-> <<"A">>, rel |-> "", to |-> <<>>]
     ELSE [from |-> <<"A">>, rel |-> "LOVES", to |-> <<"B">>]]
ContextEvidences ==
  { [edges |-> es, chunks |-> cs] :
      es \in UpToTwo(ContextEdgePool) \cup {LateEdge},
      cs \in UpToTwo(ContextChunkPool) }

\* Inputs of SpecStream: chat_completion_stream reading one response.
\* a line of the response: empty, without the "data:" prefix, "data: [DONE]",
\* a chunk with a delta (token: its content, <<>> when it has none), or data
\* that json.loads rejects
StreamLines ==
  { [kind |-> "empty", token |-> <<>>],
    [kind |-> "no_prefix", token |-> <<>>],
    [kind |-> "done", token |-> <<>>],
    [kind |-> "delta", token |-> <<"a">>],
    [kind |-> "delta", token |-> <<"b">>],
    [kind |-> "delta", token |-> <<>>],
    [kind |-> "malformed", token |-> <<>>] }
\* the lines of a response, at most MaxLines of them
StreamBodies ==
  UNION { [1..n -> StreamLines] : n \in 0..MaxLines }
\* the response status, and how the body ends after its lines: the provider
\* closes it, or the transport fails
StreamStatuses == {"2xx", "non_2xx"}
StreamEndings == {"closed", "transport_error"}

\* Inputs of SpecTitle: one chat turn in a conversation with the placeholder
\* title; the questions and the title replies are varied.
\* questions: longer than FallbackTitleLen, the placeholder followed by "?",
\* blank, quoted, two lines, punctuation only, plain
TitleContents ==
  { Rep("a", FallbackTitleLen + 1), NewChat \o <<"?">>, <<" ">>,
    <<"\"", "a", "\"">>, <<"a", "\n", "b">>, <<"?">>, <<"a">> }
\* title replies: those of Spec, and a text longer than CleanTitleLen
LongTitleReplies ==
  { [status |-> "ok", content |-> Rep("b", CleanTitleLen + 1)],
    [status |-> "ok", content |-> <<"'", "T", "1", "'", "!", "\n", "x">>] }
TurnTitleReplies ==
  { [status |-> "transport_error", content |-> <<>>],
    [status |-> "ok", content |-> <<"T", "1">>] }
TurnExtractReplies ==
  { [status |-> "transport_error", json |-> "none", obj |-> <<>>],
    [status |-> "ok", json |-> "object",
     obj |-> [persons |-> << <<"p">> >>, keywords |-> << <<"k">> >>]] }
TurnStores ==
  { [status |-> "unreachable", edges |-> 0, chunks |-> <<>>],
    [status |-> "row", edges |-> 1, chunks |-> <<"k1">>] }

\* Inputs of SpecIsolation: the limits of GET /conversations and of
\* GET /conversations/{id}/messages
ReadLimits == {1, 50}

\* Inputs of SpecAuth: requests to /auth/login, /auth/refresh and
\* /auth/logout; the jti of a new refresh token is the next of JtiSeq
AuthReqs == {"q1", "q2", "q3"}
JtiSeq == <<"j1", "j2", "j3">>
Jtis == {JtiSeq[i] : i \in 1..Len(JtiSeq)}
\* the request has no refresh cookie, or one that does not decode
NoJti == "nojti"

(* ------------------------------ strings ------------------------------- *)
RECURSIVE lstrip(_)
\* str.lstrip(): drop leading whitespace
lstrip(s) ==
  IF s = <<>> THEN <<>>
  ELSE IF Head(s) \in Whitespace THEN lstrip(Tail(s)) ELSE s

RECURSIVE rstrip(_)
\* str.rstrip(): drop trailing whitespace
rstrip(s) ==
  IF s = <<>> THEN <<>>
  ELSE IF s[Len(s)] \in Whitespace THEN rstrip(SubSeq(s, 1, Len(s) - 1)) ELSE s

\* mutant of strip: only leading whitespace is dropped
strip_leading_only(s) == lstrip(s)

\* str.strip()
strip(s) == rstrip(lstrip(s))

RECURSIVE join(_)
\* "".join(xs): in-order concatenation of a list of strings
join(xs) ==
  IF xs = <<>> THEN <<>> ELSE Head(xs) \o join(Tail(xs))

\* str.strip() on a title
strip_title(t) == strip(t)

RECURSIVE lstrip_chars(_, _)
\* str.lstrip(chars)
lstrip_chars(s, chars) ==
  IF s = <<>> THEN <<>>
  ELSE IF Head(s) \in chars THEN lstrip_chars(Tail(s), chars) ELSE s

RECURSIVE rstrip_chars(_, _)
\* str.rstrip(chars); also re.sub(r"[chars]+$", "", s)
rstrip_chars(s, chars) ==
  IF s = <<>> THEN <<>>
  ELSE IF s[Len(s)] \in chars THEN rstrip_chars(SubSeq(s, 1, Len(s) - 1), chars)
  ELSE s

\* str.strip(chars)
strip_chars(s, chars) == rstrip_chars(lstrip_chars(s, chars), chars)

RECURSIVE first_line(_)
\* s.splitlines()[0] of a non-empty s
first_line(s) ==
  IF s = <<>> THEN <<>>
  ELSE IF Head(s) = "\n" THEN <<>> ELSE <<Head(s)>> \o first_line(Tail(s))

\* s[:n]
prefix(s, n) == IF Len(s) > n THEN SubSeq(s, 1, n) ELSE s

\* _clean_title
clean_title(s) ==
  LET s1 == strip(s)
      s2 == strip(strip_chars(strip_chars(s1, {"\""}), {"'"}))
      s3 == IF s2 # <<>> THEN strip(first_line(s2)) ELSE s2
      s4 == strip(rstrip_chars(s3, TitlePunctuation))
  IN IF Len(s4) > CleanTitleLen THEN strip(prefix(s4, CleanTitleLen)) ELSE s4

\* the statuses of a title reply on which chat_completion_async raises, or
\* on which reading resp["choices"][0]["message"] raises
FailedReplies == {"transport_error", "non_2xx", "malformed_body"}

\* mutant of generate_conversation_title: a failed call gives no title
generate_conversation_title_no_fallback(question, answer, reply) ==
  LET q == strip(question)
      fallback0 == IF Len(q) > FallbackTitleLen
                   THEN prefix(q, FallbackTitleLen) \o <<Ellipsis>> ELSE q
      fallback == IF fallback0 = <<>> THEN NewChat ELSE fallback0
  IN IF reply.status \in FailedReplies THEN <<>>
     ELSE LET title == clean_title(strip(reply.content))
          IN IF title # <<>> THEN title ELSE fallback

\* generate_conversation_title: the cleaned reply of the model, or the
\* fallback (the question, truncated) when the reply is empty or the call fails
generate_conversation_title(question, answer, reply) ==
  LET q == strip(question)
      fallback0 == IF Len(q) > FallbackTitleLen
                   THEN prefix(q, FallbackTitleLen) \o <<Ellipsis>> ELSE q
      fallback == IF fallback0 = <<>> THEN NewChat ELSE fallback0
  IN IF reply.status \in FailedReplies THEN fallback
     ELSE LET title == clean_title(strip(reply.content))
          IN IF title # <<>> THEN title ELSE fallback

(* ------------------------------- state -------------------------------- *)
VARIABLES
  conversations,   \* table conversations: id -> [user_id, title]
  messages,        \* table messages, in created_at order
  turn,            \* per request: position and locals of chat / event_gen
  events,          \* per request: the events yielded by event_gen, in order
  upstream,        \* per request: what chat_completion_stream did so far
  title_calls,     \* per request: calls of generate_conversation_title
  call             \* one application of a function: its arguments, its result

vars == <<conversations, messages, turn, events, upstream, title_calls, call>>

\* no function is being applied
NoCall == [fn |-> "none"]

NoRow == [user_id |-> NoUser, title |-> <<>>]

IdleTurn ==
  [ pc |-> "idle", user |-> NoUser, conv |-> NoConv, content |-> <<>>,
    last_n |-> 1, history_msgs |-> <<>>,
    ent |-> EmptyPack, extract_reply |-> "unasked",
    store |-> "unasked",
    retrieved |-> [edges |-> 0, chunks |-> <<>>],
    chunk_ids |-> <<>>, answer_buf |-> <<>>,
    answer |-> <<>>, conv2_title |-> <<>>, n |-> 0, new_title |-> <<>>,
    title_reply |-> "none",
    pending |-> "none", raised_at |-> "nowhere", closed_at |-> "nowhere",
    finally_entered |-> FALSE,
    outcome |-> "none", user_db |-> "unopened" ]

Init ==
  /\ conversations = [c \in ConvIds |-> NoRow]
  /\ messages = <<>>
  /\ turn = [r \in ReqIds |-> IdleTurn]
  /\ events = [r \in ReqIds |-> <<>>]
  /\ upstream = [r \in ReqIds |-> [deltas |-> <<>>, status |-> "unopened"]]
  /\ title_calls = [r \in ReqIds |-> 0]
  /\ call = NoCall

(* ---------------------------- chat_store ------------------------------ *)
\* mutant of get_conversation: the owner is not compared
get_conversation_any_owner(user_id, conversation_id) ==
  IF /\ conversation_id \in ConvIds
     /\ conversations[conversation_id].user_id # NoUser
  THEN conversation_id
  ELSE NoConv

\* get_conversation: the row with this id owned by user_id, or None
get_conversation(user_id, conversation_id) ==
  IF /\ conversation_id \in ConvIds
     /\ conversations[conversation_id].user_id = user_id
     /\ user_id # NoUser
  THEN conversation_id
  ELSE NoConv

\* meta of a user message: {"request_id": req_id}
UserMeta(req_id) ==
  [request_id |-> req_id, entities |-> EmptyPack, edges_count |-> 0, chunks |-> <<>>]

\* meta of an assistant message: request_id, entities, retrieved summary
AssistantMeta(req_id, ent, retrieved, chunk_ids) ==
  [request_id |-> req_id, entities |-> ent,
   edges_count |-> retrieved.edges, chunks |-> chunk_ids]

\* add_message: insert the Message row and commit
add_message(conversation_id, role, content, meta) ==
  Append(messages, [conversation_id |-> conversation_id, role |-> role,
                    content |-> content, meta |-> meta])

OfConversation(conversation_id) ==
  SelectSeq(messages, LAMBDA m : m.conversation_id = conversation_id)

\* get_message_count
get_message_count(conversation_id) == Len(OfConversation(conversation_id))

\* limit = max(1, min(limit, 100))
ClampLimit(limit) ==
  IF limit > 100 THEN 100 ELSE IF limit < 1 THEN 1 ELSE limit

\* mutant of list_recent_messages_for_llm: the oldest `limit` rows
list_oldest_messages_for_llm(conversation_id, limit) ==
  LET rows == OfConversation(conversation_id)
      k == ClampLimit(limit)
  IN [i \in 1..(IF Len(rows) > k THEN k ELSE Len(rows)) |->
        [role |-> rows[i].role, content |-> rows[i].content]]

\* list_recent_messages_for_llm: newest `limit` rows, oldest first
list_recent_messages_for_llm(conversation_id, limit) ==
  LET rows == OfConversation(conversation_id)
      k == ClampLimit(limit)
      from == IF Len(rows) > k THEN Len(rows) - k + 1 ELSE 1
  IN [i \in 1..(Len(rows) - from + 1) |->
        [role |-> rows[from + i - 1].role, content |-> rows[from + i - 1].content]]

\* list_messages: the oldest `limit` rows of the conversation, oldest first
list_messages(conversation_id, limit) ==
  LET rows == OfConversation(conversation_id)
  IN [i \in 1..(IF Len(rows) > limit THEN limit ELSE Len(rows)) |->
        [role |-> rows[i].role, content |-> rows[i].content, meta |-> rows[i].meta]]

\* list_conversations: the newest `limit` rows owned by user_id
list_conversations(user_id, limit) ==
  LET rows == SelectSeq(ConvSeq, LAMBDA c : conversations[c].user_id = user_id)
  IN [i \in 1..(IF Len(rows) > limit THEN limit ELSE Len(rows)) |->
        [conversation_id |-> rows[i], title |-> conversations[rows[i]].title]]

\* update_conversation_title: only the row owned by user_id; blank is a no-op
update_conversation_title(user_id, conversation_id, title) ==
  IF strip_title(title) = <<>> THEN conversations
  ELSE IF /\ conversation_id \in ConvIds
          /\ conversations[conversation_id].user_id = user_id
       THEN [conversations EXCEPT ![conversation_id].title = strip_title(title)]
       ELSE conversations

\* create_conversation: a fresh row owned by user_id, titled title or "New chat"
create_conversation(conversation_id, user_id, title) ==
  [conversations EXCEPT ![conversation_id] =
     [user_id |-> user_id, title |-> IF title = <<>> THEN NewChat ELSE title]]

(* -------------------------- extract_entities -------------------------- *)
\* data.get(f, []) or []
PackField(obj, f) == IF f \in DOMAIN obj THEN obj[f] ELSE <<>>

\* extract_entities: the call of the model and the reading of
\* resp["choices"][0]["message"] are outside the try statement, so their
\* exceptions are raised to the caller; a text that json.loads rejects, or
\* that is no JSON object, gives the pack whose only keyword is the question
extract_entities(question, reply) ==
  IF reply.status # "ok"
  THEN [raised |-> TRUE, message |-> reply.status, value |-> EmptyPack]
  ELSE IF reply.json # "object"
  THEN [raised |-> FALSE, message |-> "",
        value |-> [EmptyPack EXCEPT !.keywords = <<question>>]]
  ELSE [raised |-> FALSE, message |-> "",
        value |-> [f \in PackFields |-> PackField(reply.obj, f)]]

(* ------------------------- graphrag_retriever ------------------------- *)
\* mutant of neo4j_retrieve: a failure of the store is swallowed and an empty
\* result is returned
neo4j_retrieve_swallows_failure(store) ==
  IF store.status = "row"
  THEN [raised |-> FALSE, message |-> "",
        value |-> [edges |-> store.edges, chunks |-> store.chunks]]
  ELSE [raised |-> FALSE, message |-> "", value |-> [edges |-> 0, chunks |-> <<>>]]

\* neo4j_retrieve: session.run / res.single() are not guarded, so a failure of
\* the store is raised to the caller; no row gives the empty result
neo4j_retrieve(store) ==
  IF store.status \in StoreFailures
  THEN [raised |-> TRUE, message |-> store.status,
        value |-> [edges |-> 0, chunks |-> <<>>]]
  ELSE IF store.status = "no_row"
  THEN [raised |-> FALSE, message |-> "", value |-> [edges |-> 0, chunks |-> <<>>]]
  ELSE [raised |-> FALSE, message |-> "",
        value |-> [edges |-> store.edges, chunks |-> store.chunks]]

(* ------------------- graphrag_retriever: the query -------------------- *)
\* the relation types the traversal may follow
REL_WHITELIST ==
  {"FRIEND_OF", "FAMILY_OF", "LOVES", "MARRIED_TO", "WORKS_FOR", "STUDIES_AT",
   "PARTICIPATES_IN", "HAPPENS_AT", "INVOLVES", "MENTIONED_IN", "SUPPORTED_BY"}

\* the elements of a list
Range(xs) == {xs[i] : i \in 1..Len(xs)}

\* mutant of norm_list: blank entries are kept
norm_list_keeps_blank(xs) == xs

RECURSIVE norm_list_onto(_, _)
\* the loop of _norm_list: out is the list built so far
norm_list_onto(xs, out) ==
  IF xs = <<>> THEN out
  ELSE LET x == strip(Head(xs))
       IN IF x = <<>> \/ x \in Range(out)
          THEN norm_list_onto(Tail(xs), out)
          ELSE norm_list_onto(Tail(xs), Append(out, x))

\* _norm_list: strip every entry, drop the empty ones and the repeated ones
norm_list(xs) == norm_list_onto(xs, <<>>)

\* the positions 1..n in order
Ids(n) == [i \in 1..n |-> i]

\* collect(DISTINCT ...): the values in row order, each once
distinct(xs) ==
  LET firsts == SelectSeq(Ids(Len(xs)), LAMBDA i : \A j \in 1..(i - 1) : xs[j] # xs[i])
  IN [k \in 1..Len(firsts) |-> xs[firsts[k]]]

\* a graph is [nodes, rels]: nodes are [id, label, name, alias, chunk_id,
\* chapter_id, text] with ids 1, 2, ..., rels are [src, type, dst]; a property
\* that is null is the empty string
NullNode ==
  [id |-> 0, label |-> "null", name |-> <<>>, alias |-> <<>>,
   chunk_id |-> <<>>, chapter_id |-> <<>>, text |-> <<>>]
NullRel == [src |-> 0, type |-> "", dst |-> 0]
\* a row of the query binds each variable of the query to the id of a node
\* (p, e, x, y, c1, c2, c3, ck) or to the position of a relationship (r1, r2),
\* 0 for null; this is the row before the first OPTIONAL MATCH
NullRow ==
  [p |-> 0, e |-> 0, r1 |-> 0, x |-> 0, r2 |-> 0, y |-> 0,
   c1 |-> 0, c2 |-> 0, c3 |-> 0, ck |-> 0]
\* the node of an id and the relationship of a position, null for 0
NodeOf(g, id) == IF id = 0 THEN NullNode ELSE g.nodes[id]
RelOf(g, i) == IF i = 0 THEN NullRel ELSE g.rels[i]

\* the id of the node a relationship ends at
EndNode(g, i) == IF i = 0 THEN 0 ELSE g.rels[i].dst

\* text CONTAINS k
Contains(text, k) ==
  \E i \in 1..(Len(text) - Len(k) + 1) : SubSeq(text, i, i + Len(k) - 1) = k

\* n.name IN names OR any(a IN coalesce(n.alias, []) WHERE a IN names)
NameMatches(n, names) ==
  \/ n.name # <<>> /\ n.name \in Range(names)
  \/ \E a \in Range(n.alias) : a \in Range(names)

\* OPTIONAL MATCH: the matches, or one null when there is none
Optional(matches) == IF matches = <<>> THEN <<0>> ELSE matches

\* the ids of the chunks a node is SUPPORTED_BY
Evidence(g, id) ==
  LET rs == SelectSeq(Ids(Len(g.rels)), LAMBDA i :
              /\ g.rels[i].src = id
              /\ g.rels[i].type = "SUPPORTED_BY"
              /\ g.nodes[g.rels[i].dst].label = "Chunk")
  IN [k \in 1..Len(rs) |-> g.rels[rs[k]].dst]

\* mutant of SecondHop: the second expansion is made whatever max_hops is
SecondHop_always(max_hops) == TRUE

\* $max_hops >= 2, the condition of the second expansion
SecondHop(max_hops) == max_hops >= 2

\* mutant of KeywordMatch: the fallback terms are searched for even when
\* there are keywords
KeywordMatch_fallback_always(text, keywords, fallback_keywords) ==
  \/ \E k \in Range(keywords) : Contains(text, k)
  \/ \E k \in Range(fallback_keywords) : Contains(text, k)

\* the WHERE condition of the keyword clause on ck.text
KeywordMatch(text, keywords, fallback_keywords) ==
  \/ /\ Len(keywords) > 0
     /\ \E k \in Range(keywords) : Contains(text, k)
  \/ /\ Len(keywords) = 0
     /\ Len(fallback_keywords) > 0
     /\ \E k \in Range(fallback_keywords) : Contains(text, k)

\* the OPTIONAL MATCH clauses of the query in their order, each named by the
\* variable it binds
Clauses == <<"p", "e", "r1", "r2", "c1", "c2", "c3", "ck">>

\* what a clause matches for a row already bound, in the order the store
\* enumerates it (the order of g.nodes and g.rels); params are the parameters
\* of the query
Candidates(g, params, max_hops, clause, row) ==
  CASE clause = "p" ->
         SelectSeq(Ids(Len(g.nodes)), LAMBDA i :
           g.nodes[i].label = "Person" /\ NameMatches(g.nodes[i], params.persons))
    [] clause = "e" ->
         SelectSeq(Ids(Len(g.nodes)), LAMBDA i :
           g.nodes[i].label = "Event" /\ NameMatches(g.nodes[i], params.events))
    [] clause = "r1" ->
         SelectSeq(Ids(Len(g.rels)), LAMBDA i :
           g.rels[i].src = row.p /\ g.rels[i].type \in REL_WHITELIST)
    [] clause = "r2" ->
         SelectSeq(Ids(Len(g.rels)), LAMBDA i :
           /\ g.rels[i].src = row.x
           /\ SecondHop(max_hops)
           /\ g.rels[i].type \in REL_WHITELIST)
    [] clause = "c1" -> Evidence(g, row.e)
    [] clause = "c2" -> Evidence(g, row.x)
    [] clause = "c3" -> Evidence(g, row.y)
    [] OTHER ->
         SelectSeq(Ids(Len(g.nodes)), LAMBDA i :
           /\ g.nodes[i].label = "Chunk"
           /\ KeywordMatch(g.nodes[i].text, params.keywords,
                           params.fallback_keywords))

\* the row with the variables of a clause bound to a match m
Bind(g, row, clause, m) ==
  CASE clause = "r1" -> [row EXCEPT !.r1 = m, !.x = EndNode(g, m)]
    [] clause = "r2" -> [row EXCEPT !.r2 = m, !.y = EndNode(g, m)]
    [] OTHER -> [row EXCEPT ![clause] = m]

\* the ids a column binds over the rows, each once, nulls left out
CollectNodes(rows, col) ==
  distinct(SelectSeq([i \in 1..Len(rows) |-> rows[i][col]], LAMBDA id : id # 0))

\* the projection of a chunk node the query returns
ChunkMap(c) == [chunk_id |-> c.chunk_id, chapter_id |-> c.chapter_id, text |-> c.text]

\* the end of the query, from the rows its OPTIONAL MATCH clauses leave:
\* [found |-> FALSE] when it returns no row (the UNWIND of an empty chunk list
\* leaves nothing to return), else its row
QueryReturn(g, rows, top_k) ==
  LET edges ==
        distinct([i \in 1..Len(rows) |->
          [from |-> NodeOf(g, rows[i].p).name, rel |-> RelOf(g, rows[i].r1).type,
           to |-> NodeOf(g, rows[i].x).name]])
        \o
        distinct([i \in 1..Len(rows) |->
          [from |-> NodeOf(g, rows[i].x).name, rel |-> RelOf(g, rows[i].r2).type,
           to |-> NodeOf(g, rows[i].y).name]])
      chunks ==
        CollectNodes(rows, "c1") \o CollectNodes(rows, "c2")
        \o CollectNodes(rows, "c3") \o CollectNodes(rows, "ck")
  IN IF chunks = <<>>
     THEN [found |-> FALSE, edges |-> <<>>, chunks |-> <<>>]
     ELSE [found |-> TRUE, edges |-> prefix(edges, EdgeCap),
           chunks |-> prefix(distinct([i \in 1..Len(chunks) |->
                                         ChunkMap(g.nodes[chunks[i]])]), top_k)]

\* mutant of dedup_chunks_onto: every chunk of the row is kept
dedup_chunks_keep_all(chunks, out) == out \o chunks

RECURSIVE dedup_chunks_onto(_, _)
\* the loop over chunks: skip a chunk without chunk_id or with one seen before
dedup_chunks_onto(chunks, out) ==
  IF chunks = <<>> THEN out
  ELSE IF \/ Head(chunks).chunk_id = <<>>
          \/ \E j \in 1..Len(out) : out[j].chunk_id = Head(chunks).chunk_id
       THEN dedup_chunks_onto(Tail(chunks), out)
       ELSE dedup_chunks_onto(Tail(chunks), Append(out, Head(chunks)))

\* the parameters neo4j_retrieve gives the query: the truncated and normalised
\* lists of the pack
query_params(entity_pack) ==
  [persons |-> norm_list(prefix(entity_pack.persons, NamesCap)),
   events |-> norm_list(prefix(entity_pack.events, NamesCap)),
   keywords |-> norm_list(prefix(entity_pack.keywords, KeywordsCap)),
   fallback_keywords |-> norm_list(prefix(entity_pack.persons, NamesCap)
                                     \o prefix(entity_pack.events, NamesCap))]

\* mutant of neo4j_retrieve_result: the edges of the row are returned as they are
neo4j_retrieve_result_unfiltered(row) ==
  IF ~row.found THEN [edges |-> <<>>, chunks |-> <<>>]
  ELSE [edges |-> row.edges, chunks |-> dedup_chunks_onto(row.chunks, <<>>)]

\* what neo4j_retrieve makes of the row the query returned
neo4j_retrieve_result(row) ==
  IF ~row.found THEN [edges |-> <<>>, chunks |-> <<>>]
  ELSE [edges |-> SelectSeq(row.edges, LAMBDA e : e.rel # ""),
        chunks |-> dedup_chunks_onto(row.chunks, <<>>)]

(* ---------------------------- build_context -------------------------- *)
\* the pieces of fixed text of the context; a context is a sequence of such
\* pieces and of the characters of the names, ids and texts put between them
\* the opening instruction (answer from the facts and the evidence, do not
\* fabricate, say so when the evidence is not enough) and two line ends
Instruction == "INSTRUCTION\n\n"
\* the heading of the facts section and a line end
FactsHeading == "FACTS:\n"
\* two line ends, the heading of the chunks section and a line end
ChunksHeading == "\n\nCHUNKS:\n"
\* "(U+65E0)" and a line end: the section has nothing
NonePlaceholder == "(NONE)\n"

RECURSIVE join_with(_, _)
\* sep.join(xs)
join_with(xs, sep) ==
  IF xs = <<>> THEN <<>>
  ELSE IF Len(xs) = 1 THEN Head(xs)
  ELSE Head(xs) \o sep \o join_with(Tail(xs), sep)

\* f"- ({frm}) -[{rel}]-> ({to})"
fact_line(e) ==
  <<"- (">> \o e.from \o <<") -[">> \o <<e.rel>> \o <<"]-> (">> \o e.to \o <<")">>

\* f"[chunk_id={...}, chapter_id={...}] {text}"
chunk_block(c) ==
  <<"[chunk_id=">> \o c.chunk_id \o <<", chapter_id=">> \o c.chapter_id
    \o <<"] ">> \o c.text

\* mutant of build_context: a section with nothing is left empty
build_context_omits_placeholder(retrieved) ==
  LET shown == SelectSeq(prefix(retrieved.edges, EdgeCap),
                 LAMBDA e : e.from # <<>> /\ e.rel # "" /\ e.to # <<>>)
      fact_lines == [i \in 1..Len(shown) |-> fact_line(shown[i])]
      chunk_blocks == [i \in 1..Len(retrieved.chunks) |->
                         chunk_block(retrieved.chunks[i])]
  IN <<Instruction, FactsHeading>>
       \o join_with(fact_lines, <<"\n">>)
       \o <<ChunksHeading>>
       \o join_with(chunk_blocks, <<"\n", "\n">>)

\* build_context
build_context(retrieved) ==
  LET shown == SelectSeq(prefix(retrieved.edges, EdgeCap),
                 LAMBDA e : e.from # <<>> /\ e.rel # "" /\ e.to # <<>>)
      fact_lines == [i \in 1..Len(shown) |-> fact_line(shown[i])]
      chunk_blocks == [i \in 1..Len(retrieved.chunks) |->
                         chunk_block(retrieved.chunks[i])]
  IN <<Instruction, FactsHeading>>
       \o (IF fact_lines # <<>> THEN join_with(fact_lines, <<"\n">>)
           ELSE <<NonePlaceholder>>)
       \o <<ChunksHeading>>
       \o (IF chunk_blocks # <<>> THEN join_with(chunk_blocks, <<"\n", "\n">>)
           ELSE <<NonePlaceholder>>)

(* ------------------------------ events -------------------------------- *)
\* sse(event, data): one event of the stream
sse(req_id, type, stage, delta, message, edges, chunks) ==
  [id |-> req_id, type |-> type, stage |-> stage, delta |-> delta,
   message |-> message, edges |-> edges, chunks |-> chunks]

Emit(r, e) == events' = [events EXCEPT ![r] = Append(@, e)]

(* ------------------------ POST /conversations ------------------------- *)
\* create_conv: the new conversation gets a fresh id
create_conv(user, title) ==
  /\ \E i \in 1..Len(ConvSeq) :
       /\ conversations[ConvSeq[i]].user_id = NoUser
       /\ \A j \in 1..(i - 1) : conversations[ConvSeq[j]].user_id # NoUser
       /\ conversations' = create_conversation(ConvSeq[i], user, title)
  /\ UNCHANGED <<messages, turn, events, upstream, title_calls, call>>

(* ------------- GET /conversations and /{id}/messages ------------------ *)
\* list_convs: the answer is kept in call
list_convs(user, limit) ==
  /\ call' = [fn |-> "list_convs", user |-> user, conv |-> NoConv, status |-> 200,
              convs |-> list_conversations(user, limit), msgs |-> <<>>]
  /\ UNCHANGED <<conversations, messages, turn, events, upstream, title_calls>>

\* get_msgs: 404 unless the conversation is found for the user; the answer
\* is kept in call
get_msgs(user, conversation_id, limit) ==
  /\ call' = IF get_conversation(user, conversation_id) = NoConv
             THEN [fn |-> "get_msgs", user |-> user, conv |-> conversation_id,
                   status |-> 404, convs |-> <<>>, msgs |-> <<>>]
             ELSE [fn |-> "get_msgs", user |-> user, conv |-> conversation_id,
                   status |-> 200, convs |-> <<>>,
                   msgs |-> list_messages(conversation_id, limit)]
  /\ UNCHANGED <<conversations, messages, turn, events, upstream, title_calls>>

(* ------------------ POST /conversations/{id}/chat --------------------- *)
\* a request id not used before
Fresh(r) ==
  \E i \in 1..Len(ReqSeq) :
    /\ r = ReqSeq[i]
    /\ turn[r].pc = "idle"
    /\ \A j \in 1..(i - 1) : turn[ReqSeq[j]].pc # "idle"

\* chat, up to the ownership check: 404 before anything is written or streamed;
\* user comes from get_current_user, which has read it in the session of get_db
chat_validate(r, user, conversation_id, content, last_n) ==
  /\ Fresh(r)
  /\ turn' = [turn EXCEPT ![r] =
       [turn[r] EXCEPT !.user = user, !.conv = conversation_id, !.content = content,
                 !.last_n = last_n, !.user_db = "open",
                 !.pc = IF get_conversation(user, conversation_id) = NoConv
                        THEN "http_404" ELSE "add_user_message"]]
  /\ UNCHANGED <<conversations, messages, events, upstream, title_calls, call>>

\* mutant of chat_add_user_message: the user message is not written
chat_add_user_message_skipped(r) ==
  /\ turn[r].pc = "add_user_message"
  /\ turn' = [turn EXCEPT ![r].pc = "load_history"]
  /\ UNCHANGED <<conversations, messages, events, upstream, title_calls, call>>

\* chat: write the user message (committed)
chat_add_user_message(r) ==
  /\ turn[r].pc = "add_user_message"
  /\ messages' = add_message(turn[r].conv, "user", turn[r].content, UserMeta(r))
  /\ turn' = [turn EXCEPT ![r].pc = "load_history"]
  /\ UNCHANGED <<conversations, events, upstream, title_calls, call>>

\* chat: load the history, then return the StreamingResponse
chat_load_history(r) ==
  /\ turn[r].pc = "load_history"
  /\ turn' = [turn EXCEPT ![r] =
       [turn[r] EXCEPT !.history_msgs =
                   list_recent_messages_for_llm(turn[r].conv, turn[r].last_n),
                 !.pc = "stream_open"]]
  /\ UNCHANGED <<conversations, messages, events, upstream, title_calls, call>>

\* the framework leaves get_db, which closes the session get_current_user
\* used: depending on the version of the framework, once chat has returned
\* its response object and before the response is sent, or only when the
\* whole response has been sent
get_db_exits(r) ==
  /\ turn[r].user_db = "open"
  /\ turn[r].pc \in {"http_404", "stream_open", "ended"}
  /\ turn' = [turn EXCEPT ![r].user_db = "closed"]
  /\ UNCHANGED <<conversations, messages, events, upstream, title_calls, call>>

(* ----------------------- event_gen: try block ------------------------- *)
\* positions of event_gen at an await inside the try block
TryAwaits == {"await_extract", "await_retrieve", "await_stream"}
\* positions of event_gen at a yield
Yields == {"yield_entity_extracted", "yield_retrieved", "yield_token",
           "yield_done", "yield_error"}
\* positions of event_gen at an await inside the finally block
FinallyAwaits == {"await_get_conversation", "await_add_message",
                  "await_get_message_count", "await_generate_title",
                  "await_update_title"}

\* the consumer asks for the first event: event_gen runs to extract_entities
start_extracting(r) ==
  /\ turn[r].pc = "stream_open"
  /\ turn' = [turn EXCEPT ![r].pc = "await_extract"]
  /\ UNCHANGED <<conversations, messages, events, upstream, title_calls, call>>

\* mutant of extract_returns: the entity_extracted event is not yielded
extract_returns_no_meta(r, reply) ==
  LET res == extract_entities(turn[r].content, reply)
  IN /\ turn[r].pc = "await_extract"
     /\ ~res.raised
     /\ turn' = [turn EXCEPT ![r] =
          [turn[r] EXCEPT !.ent = res.value, !.extract_reply = reply.status,
                    !.pc = "await_retrieve"]]
     /\ UNCHANGED <<conversations, messages, events, upstream, title_calls, call>>

\* extract_entities returns; yield meta entity_extracted
extract_returns(r, reply) ==
  LET res == extract_entities(turn[r].content, reply)
  IN /\ turn[r].pc = "await_extract"
     /\ ~res.raised
     /\ turn' = [turn EXCEPT ![r] =
          [turn[r] EXCEPT !.ent = res.value, !.extract_reply = reply.status,
                    !.pc = "yield_entity_extracted"]]
     /\ Emit(r, sse(r, "meta", "entity_extracted", <<>>, "", 0, <<>>))
     /\ UNCHANGED <<conversations, messages, upstream, title_calls, call>>

\* extract_entities raises: except Exception yields error with str(e) and
\* keeps the exception
extract_raises(r, reply) ==
  LET res == extract_entities(turn[r].content, reply)
  IN /\ turn[r].pc = "await_extract"
     /\ res.raised
     /\ turn' = [turn EXCEPT ![r] =
          [turn[r] EXCEPT !.extract_reply = reply.status, !.pending = "exception",
                    !.raised_at = turn[r].pc, !.pc = "yield_error"]]
     /\ Emit(r, sse(r, "error", "", <<>>, res.message, 0, <<>>))
     /\ UNCHANGED <<conversations, messages, upstream, title_calls, call>>

\* the consumer asks for the next event: event_gen runs to neo4j_retrieve
start_retrieving(r) ==
  /\ turn[r].pc = "yield_entity_extracted"
  /\ turn' = [turn EXCEPT ![r].pc = "await_retrieve"]
  /\ UNCHANGED <<conversations, messages, events, upstream, title_calls, call>>

\* neo4j_retrieve returns; yield meta retrieved
retrieve_returns(r, store) ==
  LET res == neo4j_retrieve(store)
  IN /\ turn[r].pc = "await_retrieve"
     /\ ~res.raised
     /\ turn' = [turn EXCEPT ![r] =
          [turn[r] EXCEPT !.store = store.status, !.retrieved = res.value,
                    !.chunk_ids = res.value.chunks, !.pc = "yield_retrieved"]]
     /\ Emit(r, sse(r, "meta", "retrieved", <<>>, "",
                    res.value.edges, res.value.chunks))
     /\ UNCHANGED <<conversations, messages, upstream, title_calls, call>>

\* neo4j_retrieve raises: except Exception yields error with str(e) and keeps
\* the exception
retrieve_raises(r, store) ==
  LET res == neo4j_retrieve(store)
  IN /\ turn[r].pc = "await_retrieve"
     /\ res.raised
     /\ turn' = [turn EXCEPT ![r] =
          [turn[r] EXCEPT !.store = store.status, !.pending = "exception",
                    !.raised_at = turn[r].pc, !.pc = "yield_error"]]
     /\ Emit(r, sse(r, "error", "", <<>>, res.message, 0, <<>>))
     /\ UNCHANGED <<conversations, messages, upstream, title_calls, call>>

\* the consumer asks for the next event: event_gen builds the prompt and
\* awaits the next delta of chat_completion_stream
start_generating(r) ==
  /\ turn[r].pc \in {"yield_retrieved", "yield_token"}
  /\ turn' = [turn EXCEPT ![r].pc = "await_stream"]
  /\ upstream' = [upstream EXCEPT ![r].status = "open"]
  /\ UNCHANGED <<conversations, messages, events, title_calls, call>>

\* chat_completion_stream yields a delta: append it, yield a token event
stream_token(r, token) ==
  /\ turn[r].pc = "await_stream"
  /\ Len(upstream[r].deltas) < MaxTokens
  /\ upstream' = [upstream EXCEPT ![r].deltas = Append(@, token)]
  /\ turn' = [turn EXCEPT ![r] =
       [turn[r] EXCEPT !.answer_buf = Append(turn[r].answer_buf, token), !.pc = "yield_token"]]
  /\ Emit(r, sse(r, "token", "", token, "", 0, <<>>))
  /\ UNCHANGED <<conversations, messages, title_calls, call>>

\* chat_completion_stream ends: yield done
stream_ends(r) ==
  /\ turn[r].pc = "await_stream"
  /\ turn' = [turn EXCEPT ![r].pc = "yield_done"]
  /\ upstream' = [upstream EXCEPT ![r].status = "finished"]
  /\ Emit(r, sse(r, "done", "completed", <<>>, "", 0, <<>>))
  /\ UNCHANGED <<conversations, messages, title_calls, call>>

\* mutant of stage_raises: the exception is re-raised without an error event
stage_raises_silent(r) ==
  /\ turn[r].pc = "await_stream"
  /\ turn' = [turn EXCEPT ![r] =
       [IdleTurn EXCEPT !.pc = "ended", !.user = turn[r].user,
                        !.conv = turn[r].conv, !.content = turn[r].content,
                        !.pending = "exception", !.raised_at = turn[r].pc,
                        !.finally_entered = TRUE, !.outcome = "returned"]]
  /\ upstream' = [upstream EXCEPT ![r].status =
                    IF turn[r].pc = "await_stream" THEN "failed" ELSE @]
  /\ UNCHANGED <<conversations, messages, events, title_calls, call>>

\* except Exception: chat_completion_stream raises; yield error, keep the
\* exception
stage_raises(r) ==
  /\ turn[r].pc = "await_stream"
  /\ turn' = [turn EXCEPT ![r] =
       [turn[r] EXCEPT !.pending = "exception", !.raised_at = turn[r].pc,
                       !.pc = "yield_error"]]
  /\ upstream' = [upstream EXCEPT ![r].status =
                    IF turn[r].pc = "await_stream" THEN "failed" ELSE @]
  /\ Emit(r, sse(r, "error", "", <<>>, "exception", 0, <<>>))
  /\ UNCHANGED <<conversations, messages, title_calls, call>>

\* mutant of cancelled_in_try: done is yielded instead of error
cancelled_in_try_done(r) ==
  /\ turn[r].pc \in TryAwaits
  /\ turn' = [turn EXCEPT ![r] =
       [turn[r] EXCEPT !.pending = "cancelled", !.raised_at = turn[r].pc,
                       !.pc = "yield_error"]]
  /\ upstream' = [upstream EXCEPT ![r].status =
                    IF turn[r].pc = "await_stream" THEN "aborted" ELSE @]
  /\ Emit(r, sse(r, "done", "completed", <<>>, "", 0, <<>>))
  /\ UNCHANGED <<conversations, messages, title_calls, call>>

\* except asyncio.CancelledError: the task is cancelled while event_gen awaits
\* inside the try block; yield error, keep the cancellation
cancelled_in_try(r) ==
  /\ turn[r].pc \in TryAwaits
  /\ turn' = [turn EXCEPT ![r] =
       [turn[r] EXCEPT !.pending = "cancelled", !.raised_at = turn[r].pc,
                       !.pc = "yield_error"]]
  /\ upstream' = [upstream EXCEPT ![r].status =
                    IF turn[r].pc = "await_stream" THEN "aborted" ELSE @]
  /\ Emit(r, sse(r, "error", "", <<>>, "client cancelled", 0, <<>>))
  /\ UNCHANGED <<conversations, messages, title_calls, call>>

(* ---------------------- event_gen: finally block ---------------------- *)
\* event_gen has ended: its frame (the locals) is gone; what remains is the
\* request, how the try block was left, and how the generator ended
Ended(t, outcome) ==
  [IdleTurn EXCEPT !.pc = "ended", !.user = t.user, !.conv = t.conv,
                   !.content = t.content, !.extract_reply = t.extract_reply,
                   !.store = t.store,
                   !.title_reply = t.title_reply,
                   !.pending = t.pending,
                   !.raised_at = t.raised_at, !.closed_at = t.closed_at,
                   !.finally_entered = t.finally_entered, !.outcome = outcome,
                   !.user_db = t.user_db]

\* the finally block has run to its end: the pending exception, if any, goes
\* on to the consumer
Finished(t) ==
  Ended(t, IF t.closed_at # "nowhere" THEN "closed"
           ELSE IF t.pending = "none" THEN "returned" ELSE t.pending)

\* `return` inside finally: the generator ends and the pending exception is
\* dropped
Returned(t) == Ended(t, "returned")

\* mutant of EnterFinally: the answer is persisted only after a clean stream
EnterFinally_only_on_success(t) ==
  LET answer == strip(join(t.answer_buf))
      u == [t EXCEPT !.finally_entered = TRUE, !.answer = answer]
  IN IF answer = <<>> \/ t.pending # "none" \/ t.closed_at # "nowhere"
     THEN Returned(u)
     ELSE [u EXCEPT !.pc = "await_get_conversation"]

\* mutant of EnterFinally: no early return on an empty answer
EnterFinally_no_empty_check(t) ==
  LET answer == strip(join(t.answer_buf))
  IN [t EXCEPT !.finally_entered = TRUE, !.answer = answer,
               !.pc = "await_get_conversation"]

\* entry of the finally block: answer = "".join(answer_buf).strip(); return if
\* it is empty, else open a session and await get_conversation
EnterFinally(t) ==
  LET answer == strip(join(t.answer_buf))
      u == [t EXCEPT !.finally_entered = TRUE, !.answer = answer]
  IN IF answer = <<>> THEN Returned(u)
     ELSE [u EXCEPT !.pc = "await_get_conversation"]

\* the consumer asks for the next event after done or error: event_gen leaves
\* the try statement (re-raising after error) and enters finally
resume_after_terminal(r) ==
  /\ turn[r].pc \in {"yield_done", "yield_error"}
  /\ turn' = [turn EXCEPT ![r] = EnterFinally(turn[r])]
  /\ UNCHANGED <<conversations, messages, events, upstream, title_calls, call>>

\* the consumer closes the generator while it is suspended at a yield:
\* GeneratorExit is raised there, no except clause catches it, finally runs
closed_at_yield(r) ==
  /\ turn[r].pc \in Yields
  /\ turn' = [turn EXCEPT ![r] =
       EnterFinally([turn[r] EXCEPT !.closed_at = turn[r].pc])]
  /\ upstream' = [upstream EXCEPT ![r].status =
                    IF turn[r].pc = "yield_token" THEN "aborted" ELSE @]
  /\ UNCHANGED <<conversations, messages, events, title_calls, call>>

\* conv2 = get_conversation(...); return if it is not found
fin_get_conversation(r) ==
  /\ turn[r].pc = "await_get_conversation"
  /\ turn' = [turn EXCEPT ![r] =
       IF get_conversation(turn[r].user, turn[r].conv) = NoConv
       THEN Returned(turn[r])
       ELSE [turn[r] EXCEPT !.conv2_title = conversations[turn[r].conv].title,
                            !.pc = "await_add_message"]]
  /\ UNCHANGED <<conversations, messages, events, upstream, title_calls, call>>

\* write the assistant message; go on to the title only if conv2.title is
\* the placeholder
fin_add_message(r) ==
  /\ turn[r].pc = "await_add_message"
  /\ messages' = add_message(turn[r].conv, "assistant", turn[r].answer,
                   AssistantMeta(r, turn[r].ent, turn[r].retrieved, turn[r].chunk_ids))
  /\ turn' = [turn EXCEPT ![r] =
       IF strip_title(turn[r].conv2_title) = NewChat
       THEN [turn[r] EXCEPT !.pc = "await_get_message_count"]
       ELSE Finished(turn[r])]
  /\ UNCHANGED <<conversations, events, upstream, title_calls, call>>

\* mutant of FirstTurn: no guard on the number of messages
FirstTurn_unguarded(n) == TRUE

\* mutant of FirstTurn: the second turn passes too
FirstTurn_two_turns(n) == n <= 4

\* the first-turn guard of the automatic title
FirstTurn(n) == n <= 2

\* n = get_message_count(...); call generate_conversation_title only if n <= 2
fin_get_message_count(r) ==
  /\ turn[r].pc = "await_get_message_count"
  /\ turn' = [turn EXCEPT ![r] =
       LET n == get_message_count(turn[r].conv)
       IN IF FirstTurn(n)
          THEN [turn[r] EXCEPT !.n = n, !.pc = "await_generate_title"]
          ELSE Finished([turn[r] EXCEPT !.n = n])]
  /\ title_calls' = [title_calls EXCEPT ![r] =
       IF FirstTurn(get_message_count(turn[r].conv)) THEN @ + 1 ELSE @]
  /\ UNCHANGED <<conversations, messages, events, upstream, call>>

\* generate_conversation_title returns; new_title = _clean_title(...); update
\* only if it is non-empty and not the placeholder
fin_generate_title(r, reply) ==
  /\ turn[r].pc = "await_generate_title"
  /\ turn' = [turn EXCEPT ![r] =
       LET new_title == clean_title(
             generate_conversation_title(turn[r].content, turn[r].answer, reply))
           t == [turn[r] EXCEPT !.new_title = new_title,
                                !.title_reply = reply.status]
       IN IF new_title # <<>> /\ new_title # NewChat
          THEN [t EXCEPT !.pc = "await_update_title"]
          ELSE Finished(t)]
  /\ UNCHANGED <<conversations, messages, events, upstream, title_calls, call>>

\* update_conversation_title(...), the last statement of finally
fin_update_title(r) ==
  /\ turn[r].pc = "await_update_title"
  /\ conversations' =
       update_conversation_title(turn[r].user, turn[r].conv, turn[r].new_title)
  /\ turn' = [turn EXCEPT ![r] = Finished(turn[r])]
  /\ UNCHANGED <<messages, events, upstream, title_calls, call>>

\* an await inside finally raises (the task is cancelled there, or the
\* database call fails): nothing catches it, the rest of finally is skipped
raised_in_finally(r) ==
  /\ turn[r].pc \in FinallyAwaits
  /\ turn' = [turn EXCEPT ![r] = Ended(turn[r], "raised_in_finally")]
  /\ UNCHANGED <<conversations, messages, events, upstream, title_calls, call>>

(* --------------------------- specification ---------------------------- *)
\* one chat turn (request r1), every input varied
Next ==
  \/ \E u \in Users, t \in CreateTitles : create_conv(u, t)
  \/ \E u \in Users, c \in ConvIds, q \in Contents, k \in LastNs :
       chat_validate("r1", u, c, q, k)
  \/ \E r \in ReqIds : chat_add_user_message(r)
  \/ \E r \in ReqIds : chat_load_history(r)
  \/ \E r \in ReqIds : start_extracting(r)
  \/ \E r \in ReqIds, reply \in ExtractReplies : extract_returns(r, reply)
  \/ \E r \in ReqIds, reply \in ExtractReplies : extract_raises(r, reply)
  \/ \E r \in ReqIds : start_retrieving(r)
  \/ \E r \in ReqIds, store \in Stores : retrieve_returns(r, store)
  \/ \E r \in ReqIds, store \in Stores : retrieve_raises(r, store)
  \/ \E r \in ReqIds : start_generating(r)
  \/ \E r \in ReqIds, token \in Tokens : stream_token(r, token)
  \/ \E r \in ReqIds : stream_ends(r)
  \/ \E r \in ReqIds : stage_raises(r)
  \/ \E r \in ReqIds : cancelled_in_try(r)
  \/ \E r \in ReqIds : resume_after_terminal(r)
  \/ \E r \in ReqIds : closed_at_yield(r)
  \/ \E r \in ReqIds : fin_get_conversation(r)
  \/ \E r \in ReqIds : fin_add_message(r)
  \/ \E r \in ReqIds : fin_get_message_count(r)
  \/ \E r \in ReqIds, reply \in TitleReplies : fin_generate_title(r, reply)
  \/ \E r \in ReqIds : fin_update_title(r)
  \/ \E r \in ReqIds : raised_in_finally(r)

Spec == Init /\ [][Next]_vars

\* two chat turns (requests r1 and r2), interleaved in every way
NextTurns ==
  \/ \E u \in TurnOwners, t \in TurnCreateTitles : create_conv(u, t)
  \/ \E r \in ReqIds, u \in Users, c \in ConvIds, k \in TurnLastNs :
       \E q \in TurnContents(r) : chat_validate(r, u, c, q, k)
  \/ \E r \in ReqIds : chat_add_user_message(r)
  \/ \E r \in ReqIds : chat_load_history(r)
  \/ \E r \in ReqIds : start_extracting(r)
  \/ \E r \in ReqIds, reply \in TurnExtractReplies : extract_returns(r, reply)
  \/ \E r \in ReqIds, reply \in TurnExtractReplies : extract_raises(r, reply)
  \/ \E r \in ReqIds : start_retrieving(r)
  \/ \E r \in ReqIds, store \in TurnStores : retrieve_returns(r, store)
  \/ \E r \in ReqIds, store \in TurnStores : retrieve_raises(r, store)
  \/ \E r \in ReqIds : start_generating(r)
  \/ \E r \in ReqIds, token \in TurnTokens : stream_token(r, token)
  \/ \E r \in ReqIds : stream_ends(r)
  \/ \E r \in ReqIds : stage_raises(r)
  \/ \E r \in ReqIds : cancelled_in_try(r)
  \/ \E r \in ReqIds : resume_after_terminal(r)
  \/ \E r \in ReqIds : closed_at_yield(r)
  \/ \E r \in ReqIds : fin_get_conversation(r)
  \/ \E r \in ReqIds : fin_add_message(r)
  \/ \E r \in ReqIds : fin_get_message_count(r)
  \/ \E r \in ReqIds, reply \in TurnTitleReplies : fin_generate_title(r, reply)
  \/ \E r \in ReqIds : fin_update_title(r)
  \/ \E r \in ReqIds : raised_in_finally(r)

SpecTurns == Init /\ [][NextTurns]_vars

\* one chat turn (request r1) whose question and title reply are varied
NextTitle ==
  \/ \E u \in TurnOwners : create_conv(u, <<>>)
  \/ \E u \in TurnOwners, c \in ConvIds, q \in TitleContents, k \in TurnLastNs :
       chat_validate("r1", u, c, q, k)
  \/ \E r \in ReqIds : chat_add_user_message(r)
  \/ \E r \in ReqIds : chat_load_history(r)
  \/ \E r \in ReqIds : start_extracting(r)
  \/ \E r \in ReqIds, reply \in TurnExtractReplies : extract_returns(r, reply)
  \/ \E r \in ReqIds, reply \in TurnExtractReplies : extract_raises(r, reply)
  \/ \E r \in ReqIds : start_retrieving(r)
  \/ \E r \in ReqIds, store \in TurnStores : retrieve_returns(r, store)
  \/ \E r \in ReqIds, store \in TurnStores : retrieve_raises(r, store)
  \/ \E r \in ReqIds : start_generating(r)
  \/ \E r \in ReqIds, token \in TurnTokens : stream_token(r, token)
  \/ \E r \in ReqIds : stream_ends(r)
  \/ \E r \in ReqIds : stage_raises(r)
  \/ \E r \in ReqIds : cancelled_in_try(r)
  \/ \E r \in ReqIds : resume_after_terminal(r)
  \/ \E r \in ReqIds : closed_at_yield(r)
  \/ \E r \in ReqIds : fin_get_conversation(r)
  \/ \E r \in ReqIds : fin_add_message(r)
  \/ \E r \in ReqIds : fin_get_message_count(r)
  \/ \E r \in ReqIds, reply \in TitleReplies \cup LongTitleReplies :
       fin_generate_title(r, reply)
  \/ \E r \in ReqIds : fin_update_title(r)
  \/ \E r \in ReqIds : raised_in_finally(r)

SpecTitle == Init /\ [][NextTitle]_vars

\* one chat turn (request r1) of any user, with the read requests of any user
NextIsolation ==
  \/ \E u \in Users, t \in TurnCreateTitles : create_conv(u, t)
  \/ \E u \in Users, k \in ReadLimits : list_convs(u, k)
  \/ \E u \in Users, c \in ConvIds, k \in ReadLimits : get_msgs(u, c, k)
  \/ \E u \in Users, c \in ConvIds, q \in TurnContents("r1"), k \in TurnLastNs :
       chat_validate("r1", u, c, q, k)
  \/ \E r \in ReqIds : chat_add_user_message(r)
  \/ \E r \in ReqIds : chat_load_history(r)
  \/ \E r \in ReqIds : start_extracting(r)
  \/ \E r \in ReqIds, reply \in TurnExtractReplies : extract_returns(r, reply)
  \/ \E r \in ReqIds, reply \in TurnExtractReplies : extract_raises(r, reply)
  \/ \E r \in ReqIds : start_retrieving(r)
  \/ \E r \in ReqIds, store \in TurnStores : retrieve_returns(r, store)
  \/ \E r \in ReqIds, store \in TurnStores : retrieve_raises(r, store)
  \/ \E r \in ReqIds : start_generating(r)
  \/ \E r \in ReqIds, token \in TurnTokens : stream_token(r, token)
  \/ \E r \in ReqIds : stream_ends(r)
  \/ \E r \in ReqIds : stage_raises(r)
  \/ \E r \in ReqIds : cancelled_in_try(r)
  \/ \E r \in ReqIds : resume_after_terminal(r)
  \/ \E r \in ReqIds : closed_at_yield(r)
  \/ \E r \in ReqIds : fin_get_conversation(r)
  \/ \E r \in ReqIds : fin_add_message(r)
  \/ \E r \in ReqIds : fin_get_message_count(r)
  \/ \E r \in ReqIds, reply \in TurnTitleReplies : fin_generate_title(r, reply)
  \/ \E r \in ReqIds : fin_update_title(r)
  \/ \E r \in ReqIds : raised_in_finally(r)

SpecIsolation == Init /\ [][NextIsolation]_vars

\* one chat turn (request r1) with the database sessions it uses
NextSessions ==
  \/ \E u \in TurnOwners, t \in TurnCreateTitles : create_conv(u, t)
  \/ \E u \in Users, c \in ConvIds, q \in TurnContents("r1"), k \in TurnLastNs :
       chat_validate("r1", u, c, q, k)
  \/ \E r \in ReqIds : get_db_exits(r)
  \/ \E r \in ReqIds : chat_add_user_message(r)
  \/ \E r \in ReqIds : chat_load_history(r)
  \/ \E r \in ReqIds : start_extracting(r)
  \/ \E r \in ReqIds, reply \in TurnExtractReplies : extract_returns(r, reply)
  \/ \E r \in ReqIds, reply \in TurnExtractReplies : extract_raises(r, reply)
  \/ \E r \in ReqIds : start_retrieving(r)
  \/ \E r \in ReqIds, store \in TurnStores : retrieve_returns(r, store)
  \/ \E r \in ReqIds, store \in TurnStores : retrieve_raises(r, store)
  \/ \E r \in ReqIds : start_generating(r)
  \/ \E r \in ReqIds, token \in TurnTokens : stream_token(r, token)
  \/ \E r \in ReqIds : stream_ends(r)
  \/ \E r \in ReqIds : stage_raises(r)
  \/ \E r \in ReqIds : cancelled_in_try(r)
  \/ \E r \in ReqIds : resume_after_terminal(r)
  \/ \E r \in ReqIds : closed_at_yield(r)
  \/ \E r \in ReqIds : fin_get_conversation(r)
  \/ \E r \in ReqIds : fin_add_message(r)
  \/ \E r \in ReqIds : fin_get_message_count(r)
  \/ \E r \in ReqIds, reply \in TurnTitleReplies : fin_generate_title(r, reply)
  \/ \E r \in ReqIds : fin_update_title(r)
  \/ \E r \in ReqIds : raised_in_finally(r)

SpecSessions == Init /\ [][NextSessions]_vars

(* ------------------- functions applied on their own ------------------- *)
\* no chat turn is running
NoChat ==
  /\ conversations = [c \in ConvIds |-> NoRow]
  /\ messages = <<>>
  /\ turn = [r \in ReqIds |-> IdleTurn]
  /\ events = [r \in ReqIds |-> <<>>]
  /\ upstream = [r \in ReqIds |-> [deltas |-> <<>>, status |-> "unopened"]]
  /\ title_calls = [r \in ReqIds |-> 0]

\* extract_entities is about to be applied to a question and a reply
InitExtract ==
  /\ NoChat
  /\ call \in { [fn |-> "extract_entities", question |-> q, reply |-> reply,
                 returned |-> FALSE,
                 result |-> [raised |-> FALSE, message |-> "", value |-> EmptyPack]] :
                 q \in ExtractQuestions, reply \in ExtractCallReplies }

\* extract_entities runs to its end
call_extract_entities ==
  /\ call.fn = "extract_entities"
  /\ ~call.returned
  /\ call' = [call EXCEPT !.returned = TRUE,
                          !.result = extract_entities(call.question, call.reply)]
  /\ UNCHANGED <<conversations, messages, turn, events, upstream, title_calls>>

NextExtract == call_extract_entities

\* neo4j_retrieve is about to be applied to a pack on a graph
InitRetrieve ==
  /\ NoChat
  /\ call \in { [fn |-> "neo4j_retrieve", graph |-> a.graph,
                 entity_pack |-> [persons |-> a.ps, locations |-> a.os,
                                  orgs |-> a.os, events |-> a.es, keywords |-> a.ks],
                 top_k_chunks |-> a.k, max_hops |-> a.h, pc |-> "start",
                 params |-> query_params(EmptyPack), clause |-> 1,
                 rows |-> <<>>, out |-> <<>>,
                 row |-> [found |-> FALSE, edges |-> <<>>, chunks |-> <<>>],
                 returned |-> FALSE,
                 result |-> [edges |-> <<>>, chunks |-> <<>>]] :
                 a \in RetrieveInputs }

\* neo4j_retrieve truncates and normalises the lists of the pack and sends the
\* query, which starts from one row
neo4j_retrieve_begins ==
  /\ call.fn = "neo4j_retrieve"
  /\ call.pc = "start"
  /\ call' = [call EXCEPT !.pc = "match",
                          !.params = query_params(call.entity_pack),
                          !.clause = 1, !.rows = <<NullRow>>, !.out = <<>>]
  /\ UNCHANGED <<conversations, messages, turn, events, upstream, title_calls>>

\* the store applies the current OPTIONAL MATCH clause to the next row; after
\* the last row of a clause the rows it made go to the next clause
query_optional_match ==
  /\ call.fn = "neo4j_retrieve"
  /\ call.pc = "match"
  /\ LET clause == Clauses[call.clause]
         row == Head(call.rows)
         ms == Optional(Candidates(GraphOf(call.graph), call.params,
                                   call.max_hops, clause, row))
         out == call.out \o [i \in 1..Len(ms) |->
                               Bind(GraphOf(call.graph), row, clause, ms[i])]
     IN call' = IF Len(call.rows) > 1
                THEN [call EXCEPT !.rows = Tail(call.rows), !.out = out]
                ELSE IF call.clause < Len(Clauses)
                THEN [call EXCEPT !.clause = call.clause + 1,
                                  !.rows = out, !.out = <<>>]
                ELSE [call EXCEPT !.pc = "return", !.rows = out, !.out = <<>>]
  /\ UNCHANGED <<conversations, messages, turn, events, upstream, title_calls>>

\* the store aggregates the rows and returns; res.single() reads the row
query_returns ==
  /\ call.fn = "neo4j_retrieve"
  /\ call.pc = "return"
  /\ call' = [call EXCEPT !.pc = "fetched", !.rows = <<>>,
                          !.row = QueryReturn(GraphOf(call.graph), call.rows,
                                              call.top_k_chunks)]
  /\ UNCHANGED <<conversations, messages, turn, events, upstream, title_calls>>

\* neo4j_retrieve filters the edges and the chunks of the row and returns
neo4j_retrieve_ends ==
  /\ call.fn = "neo4j_retrieve"
  /\ call.pc = "fetched"
  /\ call' = [call EXCEPT !.pc = "done", !.returned = TRUE,
                          !.result = neo4j_retrieve_result(call.row)]
  /\ UNCHANGED <<conversations, messages, turn, events, upstream, title_calls>>

NextRetrieve ==
  \/ neo4j_retrieve_begins
  \/ query_optional_match
  \/ query_returns
  \/ neo4j_retrieve_ends

SpecRetrieve == InitRetrieve /\ [][NextRetrieve]_vars

\* build_context is about to be applied to an Evidence
InitContext ==
  /\ NoChat
  /\ call \in { [fn |-> "build_context", retrieved |-> ev, results |-> <<>>] :
                 ev \in ContextEvidences }

\* build_context is applied once more to the same Evidence
call_build_context ==
  /\ call.fn = "build_context"
  /\ Len(call.results) < MaxBuilds
  /\ call' = [call EXCEPT !.results = Append(@, build_context(call.retrieved))]
  /\ UNCHANGED <<conversations, messages, turn, events, upstream, title_calls>>

NextContext == call_build_context

SpecContext == InitContext /\ [][NextContext]_vars

(* ---------------- llm_client: chat_completion_stream ------------------ *)
\* chat_completion_stream is about to send its request; read: the lines it
\* has read, yielded: the tokens it has yielded, outcome: "unopened",
\* "reading", "returned" (the generator ended) or "raised"
InitStream ==
  /\ NoChat
  /\ call \in { [fn |-> "chat_completion_stream", status |-> st, lines |-> ls,
                 ending |-> en, read |-> 0, yielded |-> <<>>,
                 outcome |-> "unopened"] :
                 st \in StreamStatuses, ls \in StreamBodies, en \in StreamEndings }

\* client.stream(...) answers; r.raise_for_status()
stream_request ==
  /\ call.fn = "chat_completion_stream"
  /\ call.outcome = "unopened"
  /\ call' = [call EXCEPT !.outcome =
                 IF call.status = "2xx" THEN "reading" ELSE "raised"]
  /\ UNCHANGED <<conversations, messages, turn, events, upstream, title_calls>>

\* one turn of `async for line in r.aiter_lines()`: skip the line, break on
\* [DONE], or yield the content of the delta if it has one
stream_line ==
  /\ call.fn = "chat_completion_stream"
  /\ call.outcome = "reading"
  /\ call.read < Len(call.lines)
  /\ LET line == call.lines[call.read + 1]
     IN call' = [call EXCEPT
          !.read = @ + 1,
          !.outcome = IF line.kind = "done" THEN "returned" ELSE @,
          !.yielded = IF line.kind = "delta" /\ line.token # <<>>
                      THEN Append(@, line.token) ELSE @]
  /\ UNCHANGED <<conversations, messages, turn, events, upstream, title_calls>>

\* r.aiter_lines() has no more lines: the loop ends when the body was closed,
\* and the transport's exception is raised when it failed
stream_body_ends ==
  /\ call.fn = "chat_completion_stream"
  /\ call.outcome = "reading"
  /\ call.read = Len(call.lines)
  /\ call' = [call EXCEPT !.outcome =
                 IF call.ending = "transport_error" THEN "raised" ELSE "returned"]
  /\ UNCHANGED <<conversations, messages, turn, events, upstream, title_calls>>

NextStream ==
  \/ stream_request
  \/ stream_line
  \/ stream_body_ends

SpecStream == InitStream /\ [][NextStream]_vars

SpecExtract == InitExtract /\ [][NextExtract]_vars

(* ------------------ auth_api: refresh-token rotation ------------------ *)
\* a request not made yet
IdleAuth ==
  [pc |-> "idle", route |-> "none", jti |-> NoJti, status |-> 0, stale |-> FALSE]

\* the RefreshToken table (per jti: "absent", "valid" or "revoked"; no token
\* expires within the run) and the requests
InitAuth ==
  /\ NoChat
  /\ call = [fn |-> "auth",
             refresh_tokens |-> [j \in Jtis |-> "absent"],
             reqs |-> [q \in AuthReqs |-> IdleAuth]]

\* the jti create_refresh_token draws: one not drawn before
FreshJti(j) ==
  \E i \in 1..Len(JtiSeq) :
    /\ j = JtiSeq[i]
    /\ call.refresh_tokens[j] = "absent"
    /\ \A k \in 1..(i - 1) : call.refresh_tokens[JtiSeq[k]] # "absent"

\* store_refresh_jti
store_refresh_jti(jti) == [call.refresh_tokens EXCEPT ![jti] = "valid"]

\* is_refresh_jti_valid
is_refresh_jti_valid(jti) == call.refresh_tokens[jti] = "valid"

\* revoke_refresh_jti
revoke_refresh_jti(jti) ==
  IF call.refresh_tokens[jti] = "absent" THEN call.refresh_tokens
  ELSE [call.refresh_tokens EXCEPT ![jti] = "revoked"]

\* a refresh or a logout presenting this jti has completed with 200
Completed(jti) ==
  \E q \in AuthReqs :
    /\ call.reqs[q].jti = jti
    /\ call.reqs[q].pc = "done"
    /\ call.reqs[q].status = 200

\* login of a verified user: a refresh token is created and stored
auth_login ==
  /\ call.fn = "auth"
  /\ \E j \in Jtis :
       /\ FreshJti(j)
       /\ call' = [call EXCEPT !.refresh_tokens = store_refresh_jti(j)]
  /\ UNCHANGED <<conversations, messages, turn, events, upstream, title_calls>>

\* refresh, up to the await of is_refresh_jti_valid: 401 when the cookie is
\* missing or does not decode to a refresh token
refresh_begins(q, jti) ==
  /\ call.fn = "auth"
  /\ call.reqs[q].pc = "idle"
  /\ jti \in Jtis => call.refresh_tokens[jti] # "absent"
  /\ call' = [call EXCEPT !.reqs[q] =
       IF jti = NoJti
       THEN [IdleAuth EXCEPT !.route = "refresh", !.pc = "done", !.status = 401]
       ELSE [IdleAuth EXCEPT !.route = "refresh", !.jti = jti, !.pc = "check",
                             !.stale = Completed(jti)]]
  /\ UNCHANGED <<conversations, messages, turn, events, upstream, title_calls>>

\* is_refresh_jti_valid answers: 401 when the token is revoked
refresh_checks(q) ==
  /\ call.fn = "auth"
  /\ call.reqs[q].pc = "check"
  /\ call' = [call EXCEPT !.reqs[q] =
       IF is_refresh_jti_valid(call.reqs[q].jti)
       THEN [call.reqs[q] EXCEPT !.pc = "revoke"]
       ELSE [call.reqs[q] EXCEPT !.pc = "done", !.status = 401]]
  /\ UNCHANGED <<conversations, messages, turn, events, upstream, title_calls>>

\* revoke_refresh_jti of the old token
refresh_revokes(q) ==
  /\ call.fn = "auth"
  /\ call.reqs[q].pc = "revoke"
  /\ call' = [call EXCEPT !.refresh_tokens = revoke_refresh_jti(call.reqs[q].jti),
                          !.reqs[q].pc = "store"]
  /\ UNCHANGED <<conversations, messages, turn, events, upstream, title_calls>>

\* the new refresh token is created and stored; the answer is 200
refresh_stores(q) ==
  /\ call.fn = "auth"
  /\ call.reqs[q].pc = "store"
  /\ \E j \in Jtis :
       /\ FreshJti(j)
       /\ call' = [call EXCEPT !.refresh_tokens = store_refresh_jti(j),
                               !.reqs[q].pc = "done", !.reqs[q].status = 200]
  /\ UNCHANGED <<conversations, messages, turn, events, upstream, title_calls>>

\* logout, up to the await of revoke_refresh_jti: without a refresh token
\* nothing is revoked
logout_begins(q, jti) ==
  /\ call.fn = "auth"
  /\ call.reqs[q].pc = "idle"
  /\ jti \in Jtis => call.refresh_tokens[jti] # "absent"
  /\ call' = [call EXCEPT !.reqs[q] =
       IF jti = NoJti
       THEN [IdleAuth EXCEPT !.route = "logout", !.pc = "done", !.status = 200]
       ELSE [IdleAuth EXCEPT !.route = "logout", !.jti = jti,
                             !.pc = "logout_revoke"]]
  /\ UNCHANGED <<conversations, messages, turn, events, upstream, title_calls>>

\* revoke_refresh_jti; the cookies are deleted and the answer is 200
logout_revokes(q) ==
  /\ call.fn = "auth"
  /\ call.reqs[q].pc = "logout_revoke"
  /\ call' = [call EXCEPT !.refresh_tokens = revoke_refresh_jti(call.reqs[q].jti),
                          !.reqs[q].pc = "done", !.reqs[q].status = 200]
  /\ UNCHANGED <<conversations, messages, turn, events, upstream, title_calls>>

NextAuth ==
  \/ auth_login
  \/ \E q \in AuthReqs, j \in Jtis \cup {NoJti} : refresh_begins(q, j)
  \/ \E q \in AuthReqs : refresh_checks(q)
  \/ \E q \in AuthReqs : refresh_revokes(q)
  \/ \E q \in AuthReqs : refresh_stores(q)
  \/ \E q \in AuthReqs, j \in Jtis \cup {NoJti} : logout_begins(q, j)
  \/ \E q \in AuthReqs : logout_revokes(q)

SpecAuth == InitAuth /\ [][NextAuth]_vars

(* ------------------------- reading the state -------------------------- *)
\* the messages of role `role` written by request r
MsgsOf(r, role) ==
  SelectSeq(messages, LAMBDA m : m.role = role /\ m.meta.request_id = r)

\* the events of request r of the given types
EventsOfType(r, types) == SelectSeq(events[r], LAMBDA e : e.type \in types)

\* the deltas of the token events of request r, in the order emitted
TokenDeltas(r) ==
  LET toks == EventsOfType(r, {"token"})
  IN [i \in 1..Len(toks) |-> toks[i].delta]

\* in-order concatenation, written from the left
RECURSIVE Concat(_)
Concat(xs) ==
  IF xs = <<>> THEN <<>>
  ELSE Concat(SubSeq(xs, 1, Len(xs) - 1)) \o xs[Len(xs)]

\* c is s without its leading and trailing whitespace
IsTrimOf(c, s) ==
  \E i \in 1..(Len(s) + 1), j \in 0..Len(s) :
    /\ c = SubSeq(s, i, j)
    /\ \A k \in 1..(i - 1) : s[k] \in Whitespace
    /\ \A k \in (j + 1)..Len(s) : s[k] \in Whitespace
    /\ c # <<>> => (c[1] \notin Whitespace /\ c[Len(c)] \notin Whitespace)
    /\ c = <<>> => \A k \in 1..Len(s) : s[k] \in Whitespace

\* event_gen of request r has ended and its finally block was not cut short
FinalizedWhole(r) ==
  turn[r].pc = "ended" /\ turn[r].outcome # "raised_in_finally"

(* ------------------------------ claims -------------------------------- *)

C2_Original ==
  \A r \in ReqIds :
    \A i \in 1..Len(MsgsOf(r, "assistant")) :
      MsgsOf(r, "assistant")[i].content = Concat(upstream[r].deltas)

\* C2 (amended): the content of the assistant message equals the in-order
\* concatenation of the deltas received with leading and trailing whitespace
\* removed, and nothing else added or removed.
C2_ContentIsTrimmedBuffer ==
  \A r \in ReqIds :
    \A i \in 1..Len(MsgsOf(r, "assistant")) :
      IsTrimOf(MsgsOf(r, "assistant")[i].content, Concat(upstream[r].deltas))

\* C2 witness: a cancelled generation whose buffer has two deltas has persisted
\* their concatenation
C2_Witness ==
  \E r \in ReqIds :
    /\ turn[r].pending = "cancelled"
    /\ Len(upstream[r].deltas) = 2
    /\ Len(MsgsOf(r, "assistant")) = 1
    /\ MsgsOf(r, "assistant")[1].content = <<"a", "b">>

\* positions of chat before the user message is committed
BeforeUserWrite == {"idle", "http_404", "add_user_message"}

\* C3: every chat request that passed validation has, from the commit of
\* add_message on, exactly one user message, carrying the request content in
\* the request's conversation; that commit comes before extraction starts,
\* before retrieval starts and before any event is emitted: while it has not
\* happened, no event exists and event_gen has not started.
C3_UserMessageFirst ==
  \A r \in ReqIds :
    /\ turn[r].pc \notin BeforeUserWrite =>
         /\ Len(MsgsOf(r, "user")) = 1
         /\ MsgsOf(r, "user")[1].content = turn[r].content
         /\ MsgsOf(r, "user")[1].conversation_id = turn[r].conv
    /\ turn[r].pc \in BeforeUserWrite =>
         /\ Len(MsgsOf(r, "user")) = 0
         /\ events[r] = <<>>
         /\ turn[r].ent = EmptyPack /\ turn[r].extract_reply = "unasked"
         /\ upstream[r].status = "unopened"
    /\ (events[r] # <<>> \/ turn[r].pc \in TryAwaits) => Len(MsgsOf(r, "user")) = 1

\* C3 witness: extraction is being awaited, nothing emitted yet, and the user
\* message with the request content is in the table
C3_Witness ==
  \E r \in ReqIds :
    /\ turn[r].pc = "await_extract"
    /\ events[r] = <<>>
    /\ turn[r].content = <<"b">>
    /\ Len(MsgsOf(r, "user")) = 1

\* the stream of request r has an event of type `type`
Has(r, type) == EventsOfType(r, {type}) # <<>>

\* C4 (as stated): if generation was cancelled by a client disconnect, or a
\* stage raised, an error event has been emitted for the request and no done
\* event.  A disconnect during generation shows in event_gen as CancelledError
\* at the await of the next delta or as the consumer closing the generator at
\* the yield of a token.
C4_Original ==
  \A r \in ReqIds :
    (turn[r].pending # "none" \/ turn[r].closed_at = "yield_token") =>
      (Has(r, "error") /\ ~Has(r, "done"))

\* C4 (amended): if a stage raises, or the task is cancelled while event_gen
\* awaits inside the try block, an error event is emitted for the request and
\* never a done event; if instead the consumer closes the generator while it
\* is suspended at a yield, no further event is emitted (no error, and no
\* done unless it was the event being delivered); a done event is emitted only
\* after the token stream has ended normally and every delta was forwarded.
C4_ErrorOrDone ==
  \A r \in ReqIds :
    /\ turn[r].pending \in {"exception", "cancelled"} =>
         /\ Has(r, "error") /\ ~Has(r, "done")
         /\ events[r][Len(events[r])].id = r
         /\ events[r][Len(events[r])].type = "error"
         /\ events[r][Len(events[r])].message =
              (IF turn[r].pending = "cancelled" THEN "client cancelled"
               ELSE IF turn[r].raised_at = "await_retrieve" THEN turn[r].store
               ELSE IF turn[r].raised_at = "await_extract" THEN turn[r].extract_reply
               ELSE "exception")
    /\ turn[r].closed_at \notin {"nowhere", "yield_error"} => ~Has(r, "error")
    /\ turn[r].closed_at \notin {"nowhere", "yield_done"} => ~Has(r, "done")
    /\ Has(r, "done") =>
         /\ upstream[r].status = "finished"
         /\ TokenDeltas(r) = upstream[r].deltas
         /\ events[r][Len(events[r])].type = "done"

\* C4 witness: a generation cancelled after one delta has emitted the error
\* event and no done
C4_Witness ==
  \E r \in ReqIds :
    /\ turn[r].pending = "cancelled"
    /\ turn[r].raised_at = "await_stream"
    /\ Len(upstream[r].deltas) = 1
    /\ Has(r, "error")

\* C5: a stream has at most one terminal event (done or error), nothing
\* follows it, and a stream that ended without client cancellation (the
\* consumer never closed the generator) has exactly one.
C5_OneTerminal ==
  \A r \in ReqIds :
    LET n == Len(events[r])
    IN /\ Len(EventsOfType(r, {"done", "error"})) <= 1
       /\ \A i \in 1..n : events[r][i].type \in {"done", "error"} => i = n
       /\ (turn[r].pc = "ended" /\ turn[r].closed_at = "nowhere") =>
            Len(EventsOfType(r, {"done", "error"})) = 1

\* C5 witness: a stream that ended after a stage raised holds events before
\* its one terminal event
C5_Witness ==
  \E r \in ReqIds :
    /\ turn[r].pc = "ended"
    /\ turn[r].pending = "exception"
    /\ Len(events[r]) = 4
    /\ events[r][4].type = "error"

\* rank of an event in the order meta(entity_extracted), meta(retrieved),
\* token*, terminal
Rank(e) ==
  IF e.type = "meta" /\ e.stage = "entity_extracted" THEN 1
  ELSE IF e.type = "meta" /\ e.stage = "retrieved" THEN 2
  ELSE IF e.type = "token" THEN 3
  ELSE 4

\* C6: the events of a request come in the order meta(entity_extracted),
\* meta(retrieved), token*, terminal; retrieval starts only after the
\* entity_extracted event, generation only after the retrieved event; the
\* token events are the deltas of the generator, one event per delta, in the
\* generator's order, each emitted before the next delta is asked for.
C6_EventOrder ==
  \A r \in ReqIds :
    LET es == events[r]
    IN /\ \A i, j \in 1..Len(es) :
            i < j => /\ Rank(es[i]) <= Rank(es[j])
                     /\ Rank(es[i]) = Rank(es[j]) => Rank(es[i]) = 3
       /\ \A i \in 1..Len(es) :
            (es[i].type # "error" /\ Rank(es[i]) >= 2) => Rank(es[1]) = 1
       /\ \A i \in 1..Len(es) :
            (es[i].type # "error" /\ Rank(es[i]) >= 3) => Rank(es[2]) = 2
       /\ turn[r].pc = "await_retrieve" =>
            (Len(es) = 1 /\ Rank(es[1]) = 1)
       /\ (turn[r].pc = "await_stream" \/ upstream[r].status # "unopened") =>
            (Len(es) >= 2 /\ Rank(es[1]) = 1 /\ Rank(es[2]) = 2)
       /\ (turn[r].retrieved.edges > 0 \/ turn[r].chunk_ids # <<>>) =>
            (Len(es) >= 2 /\ Rank(es[1]) = 1)
       /\ TokenDeltas(r) = upstream[r].deltas
       /\ \A i \in 1..Len(es) : es[i].id = r

\* C6 witness: a completed stream with two different deltas in order
C6_Witness ==
  \E r \in ReqIds :
    /\ Len(events[r]) = 5
    /\ events[r][3].delta = <<"a">>
    /\ events[r][4].delta = <<"b">>
    /\ events[r][5].type = "done"

\* C7: a chat request on a conversation that does not exist or is not owned by
\* the requester ends with 404: that step changes neither table and emits
\* nothing, the request never gets further (no stream, no event, no user or
\* assistant message), and no other request ends with 404.
C7_NotFound ==
  /\ [](\A r \in ReqIds :
         turn[r].pc = "http_404" =>
           /\ events[r] = <<>>
           /\ upstream[r].status = "unopened"
           /\ MsgsOf(r, "user") = <<>>
           /\ MsgsOf(r, "assistant") = <<>>)
  /\ [][\A r \in ReqIds :
         (turn[r].pc = "idle" /\ turn'[r].pc # "idle") =>
           IF conversations[turn'[r].conv].user_id # turn'[r].user
           THEN /\ turn'[r].pc = "http_404"
                /\ messages' = messages
                /\ conversations' = conversations
                /\ events' = events
           ELSE turn'[r].pc = "add_user_message"]_vars
  /\ [][\A r \in ReqIds : turn[r].pc = "http_404" => turn'[r] = turn[r]]_vars

\* C7 witness: a request of a user on a conversation owned by another user
\* has ended with 404
C7_Witness ==
  \E r \in ReqIds :
    /\ turn[r].pc = "http_404"
    /\ conversations[turn[r].conv].user_id \in Users \ {turn[r].user}

\* C8: when the graph store is unreachable or the query fails, neo4j_retrieve
\* raises instead of returning an Evidence (no retrieved event, no evidence
\* in the turn), the error event is emitted right after the entity_extracted
\* event, the finally block runs with an empty buffer and returns at once,
\* and the turn persists no assistant message.
C8_RetrievalFailure ==
  \A r \in ReqIds :
    turn[r].store \in StoreFailures =>
      /\ turn[r].pending = "exception" /\ turn[r].raised_at = "await_retrieve"
      /\ Len(events[r]) = 2
      /\ Rank(events[r][1]) = 1
      /\ events[r][2].type = "error" /\ events[r][2].id = r
      /\ turn[r].retrieved = IdleTurn.retrieved /\ turn[r].chunk_ids = <<>>
      /\ upstream[r].deltas = <<>> /\ turn[r].answer_buf = <<>>
      /\ turn[r].pc \in {"yield_error", "ended"}
      /\ turn[r].pc = "ended" => turn[r].finally_entered
      /\ MsgsOf(r, "assistant") = <<>>

\* C8 witness: a turn whose retrieval failed has ended, through finally
C8_Witness ==
  \E r \in ReqIds :
    /\ turn[r].store \in StoreFailures
    /\ turn[r].pending = "exception"
    /\ turn[r].raised_at = "await_retrieve"
    /\ turn[r].pc = "ended"
    /\ turn[r].closed_at = "nowhere"
    /\ turn[r].finally_entered

\* C9: generate_conversation_title is called only when the message count of
\* the conversation, read after the turn's assistant write, is at most 2 and
\* the title is still the placeholder; so a turn in a conversation that
\* already held a user+assistant pair never calls it, and the title changes
\* only in a turn that called it, from the placeholder.
C9_TitleOnlyFirstTurn ==
  /\ [][\A r \in ReqIds :
         title_calls'[r] # title_calls[r] =>
           /\ get_message_count(turn[r].conv) <= 2
           /\ Len(MsgsOf(r, "assistant")) = 1
           /\ strip_title(conversations[turn[r].conv].title) = NewChat
           /\ title_calls[r] = 0]_vars
  /\ [][\A c \in ConvIds :
         (conversations[c].user_id # NoUser
            /\ conversations'[c].title # conversations[c].title) =>
           /\ strip_title(conversations[c].title) = NewChat
           /\ \E r \in ReqIds :
                /\ turn[r].conv = c /\ title_calls[r] = 1 /\ turn[r].n <= 2
                /\ conversations'[c].title = turn[r].new_title]_vars
  /\ [](\A r \in ReqIds :
         title_calls[r] # 0 =>
           /\ title_calls[r] = 1
           /\ OfConversation(turn[r].conv)[1] = MsgsOf(r, "user")[1]
           /\ OfConversation(turn[r].conv)[2] = MsgsOf(r, "assistant")[1])

\* C9 witness: the second turn of a conversation whose title is still the
\* placeholder has completed without calling generate_conversation_title
C9_Witness ==
  \E r \in ReqIds :
    /\ FinalizedWhole(r)
    /\ Len(MsgsOf(r, "assistant")) = 1
    /\ get_message_count(turn[r].conv) = 4
    /\ conversations[turn[r].conv].title = NewChat
    /\ title_calls[r] = 0
    /\ \E q \in ReqIds \ {r} : title_calls[q] = 1

\* C10 (as stated): a turn that is the first of its conversation to persist an
\* assistant message (every other turn has ended without one), in a
\* conversation with the placeholder title, has called
\* generate_conversation_title when its finally block has run to its end.
C10_Original ==
  \A r \in ReqIds :
    ( /\ FinalizedWhole(r)
      /\ Len(MsgsOf(r, "assistant")) = 1
      /\ \A q \in ReqIds \ {r} :
           turn[q].pc \in {"idle", "http_404", "ended"} /\ MsgsOf(q, "assistant") = <<>>
      /\ conversations[turn[r].conv].title = NewChat )
    => title_calls[r] = 1

\* the question of request r, truncated as the fallback title truncates it and
\* cleaned as every generated title is cleaned
TruncatedQuestion(r) ==
  LET q == strip(turn[r].content)
  IN clean_title(IF Len(q) > FallbackTitleLen
                 THEN SubSeq(q, 1, FallbackTitleLen) \o <<Ellipsis>> ELSE q)

\* s is a prefix of t
IsPrefix(s, t) == Len(s) <= Len(t) /\ SubSeq(t, 1, Len(s)) = s

\* C11: a failed title-generation call never aborts the finally block and is
\* never raised: the assistant message is written before the call is made
\* and no message is ever removed; after a failed call the turn goes on with
\* the truncated (and cleaned) question as the new title, which is written
\* unless it is empty or the placeholder; and every title written to an
\* existing conversation is non-empty and differs from the placeholder.
C11_TitleFailureAbsorbed ==
  /\ [](\A r \in ReqIds :
         turn[r].pc \in {"await_generate_title", "await_update_title"} =>
           Len(MsgsOf(r, "assistant")) = 1)
  /\ [][IsPrefix(messages, messages')]_vars
  /\ [][\A r \in ReqIds :
         (turn[r].title_reply = "none" /\ turn'[r].title_reply \in FailedReplies) =>
           /\ turn'[r].outcome # "raised_in_finally"
           /\ messages' = messages
           /\ Len(MsgsOf(r, "assistant")) = 1
           /\ IF TruncatedQuestion(r) \notin {<<>>, NewChat}
              THEN /\ turn'[r].pc = "await_update_title"
                   /\ turn'[r].new_title = TruncatedQuestion(r)
              ELSE /\ turn'[r].pc = "ended"
                   /\ turn'[r].outcome \in {"returned", "exception", "cancelled", "closed"}]_vars
  /\ [][\A r \in ReqIds :
         (turn[r].pc = "await_update_title" /\ turn'[r].pc # turn[r].pc
            /\ turn'[r].outcome # "raised_in_finally") =>
           /\ turn'[r].pc = "ended"
           /\ conversations'[turn[r].conv].title = turn[r].new_title]_vars
  /\ [][\A c \in ConvIds :
         (conversations[c].user_id # NoUser
            /\ conversations'[c].title # conversations[c].title) =>
           /\ conversations'[c].title # <<>>
           /\ conversations'[c].title # NewChat]_vars

\* C11 witness: the title call of a turn with a 19-character question failed,
\* the turn has ended normally, its assistant message is persisted and the
\* title of the conversation is the first 18 characters and the ellipsis
C11_Witness ==
  \E r \in ReqIds :
    /\ turn[r].title_reply \in FailedReplies
    /\ turn[r].pc = "ended" /\ turn[r].outcome = "returned"
    /\ Len(strip(turn[r].content)) > FallbackTitleLen
    /\ Len(MsgsOf(r, "assistant")) = 1
    /\ conversations[turn[r].conv].title =
         SubSeq(turn[r].content, 1, FallbackTitleLen) \o <<Ellipsis>>

\* C12 (as stated): extract_entities never raises: whatever the reply of the
\* model was, no turn has left the try block with an exception raised by
\* extraction, and no error event follows from it.
C12_Original ==
  \A r \in ReqIds :
    turn[r].extract_reply # "unasked" =>
      /\ ~(turn[r].pending = "exception" /\ turn[r].raised_at = "await_extract")
      /\ ~Has(r, "error") \/ turn[r].raised_at # "await_extract"

\* C13 (as stated): when the reply is no JSON object, or is an object without
\* a keywords field, extract_entities returns a pack whose keywords is the
\* one-element list holding the question, and whose missing fields are empty.
C13_Original ==
  (call.fn = "extract_entities" /\ call.returned /\ call.reply.status = "ok") =>
    /\ ~call.result.raised
    /\ (call.reply.json # "object" \/ "keywords" \notin DOMAIN call.reply.obj) =>
         call.result.value.keywords = <<call.question>>
    /\ \A f \in PackFields \ {"keywords"} :
         (call.reply.json # "object" \/ f \notin DOMAIN call.reply.obj) =>
           call.result.value[f] = <<>>

\* neo4j_retrieve has been applied and has returned
Retrieved == call.fn = "neo4j_retrieve" /\ call.returned

\* C14: the chunks neo4j_retrieve returns are at most top_k_chunks, no two of
\* them have the same chunk_id, and none has an empty chunk_id.
C14_ChunksBounded ==
  Retrieved =>
    LET chunks == call.result.chunks
    IN /\ Len(chunks) <= call.top_k_chunks
       /\ \A i, j \in 1..Len(chunks) : i # j => chunks[i].chunk_id # chunks[j].chunk_id
       /\ \A i \in 1..Len(chunks) : chunks[i].chunk_id # <<>>

\* C14 witness: event E is matched in the family graph, whose two evidence
\* chunks share a chunk_id, and one chunk of that id is returned
C14_Witness ==
  /\ Retrieved
  /\ call.graph = "family"
  /\ call.entity_pack.events = << <<"E">> >>
  /\ call.entity_pack.persons = <<>>
  /\ call.top_k_chunks = 30
  /\ Len(call.result.chunks) = 1
  /\ call.result.chunks[1].chunk_id = <<"1">>

\* C15: every edge neo4j_retrieve returns has a relation of the whitelist (so
\* a non-empty one), and at most EdgeCap edges are returned.
C15_EdgesWhitelisted ==
  Retrieved =>
    /\ \A i \in 1..Len(call.result.edges) :
         call.result.edges[i].rel \in REL_WHITELIST
    /\ Len(call.result.edges) <= EdgeCap

\* C15 witness: the star graph, where the matched person has more friends
\* than EdgeCap, gives exactly EdgeCap edges
C15_Witness ==
  /\ Retrieved
  /\ call.graph = "star"
  /\ Len(call.result.edges) = EdgeCap

\* C16 (as stated): no two edges neo4j_retrieve returns have the same
\* (from, rel, to) triple.
C16_Original ==
  Retrieved =>
    \A i, j \in 1..Len(call.result.edges) :
      i # j => call.result.edges[i] # call.result.edges[j]

\* the graph and the normalised names of the application
CallGraph == GraphOf(call.graph)
CallPersons == norm_list(prefix(call.entity_pack.persons, NamesCap))
CallEvents == norm_list(prefix(call.entity_pack.events, NamesCap))
CallKeywords ==
  LET ks == norm_list(prefix(call.entity_pack.keywords, KeywordsCap))
  IN IF ks # <<>> THEN ks
     ELSE norm_list(prefix(call.entity_pack.persons, NamesCap)
                      \o prefix(call.entity_pack.events, NamesCap))
\* the ids of the nodes of a label matched by name or alias
MatchedIds(label, names) ==
  {n.id : n \in {m \in Range(CallGraph.nodes) :
                   m.label = label /\ NameMatches(m, names)}}
\* the whitelisted relationships leaving a matched person
FirstHops ==
  {r \in Range(CallGraph.rels) :
     r.src \in MatchedIds("Person", CallPersons) /\ r.type \in REL_WHITELIST}
\* the chunks found without a second hop: evidence of a matched event or of
\* a first-hop neighbour, or a chunk whose text contains a search term
OneHopChunks ==
  {ChunkMap(CallGraph.nodes[r.dst]) :
     r \in {q \in Range(CallGraph.rels) :
              /\ q.type = "SUPPORTED_BY"
              /\ CallGraph.nodes[q.dst].label = "Chunk"
              /\ q.src \in MatchedIds("Event", CallEvents)
                           \cup {h.dst : h \in FirstHops}}}
  \cup {ChunkMap(n) : n \in {m \in Range(CallGraph.nodes) :
           m.label = "Chunk" /\ \E k \in Range(CallKeywords) : Contains(m.text, k)}}

\* C17: with max_hops = 1 every returned edge is a whitelisted relationship
\* leaving a person matched by the persons list, and every returned chunk is
\* found without a second hop.
C17_OneHop ==
  (Retrieved /\ call.max_hops = 1) =>
    /\ \A i \in 1..Len(call.result.edges) :
         \E r \in FirstHops :
           call.result.edges[i] =
             [from |-> CallGraph.nodes[r.src].name, rel |-> r.type,
              to |-> CallGraph.nodes[r.dst].name]
    /\ \A i \in 1..Len(call.result.chunks) :
         call.result.chunks[i] \in OneHopChunks

\* C17 witness: person A of the family graph with max_hops = 1: the edge to
\* B is returned; the edge from B to C and the chunk of C are two hops away
C17_Witness ==
  /\ Retrieved
  /\ call.max_hops = 1
  /\ call.graph = "family"
  /\ call.entity_pack.persons = << <<"A">> >>
  /\ call.entity_pack.events = <<>>
  /\ call.entity_pack.keywords = <<>>
  /\ \E i \in 1..Len(call.result.edges) : call.result.edges[i].to = <<"B">>
  /\ \E i \in 1..Len(call.result.chunks) : call.result.chunks[i].chunk_id = <<"2">>

\* every entry of every container of the pack is blank
AllBlank(pack) ==
  \A f \in PackFields : \A i \in 1..Len(pack[f]) :
    \A j \in 1..Len(pack[f][i]) : pack[f][i][j] \in Whitespace

\* C18: for a pack whose five containers are empty or hold only blank
\* strings, neo4j_retrieve returns no edge and no chunk, on every graph.
C18_EmptyPack ==
  (Retrieved /\ AllBlank(call.entity_pack)) =>
    call.result = [edges |-> <<>>, chunks |-> <<>>]

\* C18 witness: a pack of blank strings was applied to the family graph
C18_Witness ==
  /\ Retrieved
  /\ call.graph = "family"
  /\ AllBlank(call.entity_pack)
  /\ call.entity_pack.persons # <<>>
  /\ call.entity_pack.keywords # <<>>
  /\ call.entity_pack.locations # <<>>

\* the edges of the Evidence that build_context renders: those among the
\* first EdgeCap with a from, a rel and a to
RenderedEdges(ev) ==
  {i \in 1..Len(ev.edges) :
     /\ i <= EdgeCap
     /\ ev.edges[i].from # <<>> /\ ev.edges[i].rel # "" /\ ev.edges[i].to # <<>>}

RECURSIVE DeltasOf(_)
\* the contents of the deltas among some lines, in order
DeltasOf(lines) ==
  IF lines = <<>> THEN <<>>
  ELSE IF Head(lines).kind = "delta" /\ Head(lines).token # <<>>
       THEN <<Head(lines).token>> \o DeltasOf(Tail(lines))
       ELSE DeltasOf(Tail(lines))

\* C20 (as stated): chat_completion_stream yields the deltas in the order the
\* provider sent them and nothing after [DONE]; it ends normally only when it
\* has read [DONE]; and it raises on a non-2xx response and on a transport
\* failure.
C20_Original ==
  call.fn = "chat_completion_stream" =>
    /\ call.yielded = DeltasOf(SubSeq(call.lines, 1, call.read))
    /\ \A i \in 1..(call.read - 1) : call.lines[i].kind # "done"
    /\ call.outcome = "returned" =>
         (call.read >= 1 /\ call.lines[call.read].kind = "done")
    /\ (call.outcome # "unopened" /\ call.status = "non_2xx") =>
         call.outcome = "raised"
    /\ call.outcome = "raised" =>
         \/ call.status = "non_2xx"
         \/ call.ending = "transport_error" /\ call.read = Len(call.lines)

\* the edge map the query makes of a first-hop relationship
EdgeOf(r) ==
  [from |-> CallGraph.nodes[r.src].name, rel |-> r.type,
   to |-> CallGraph.nodes[r.dst].name]

\* C21 (as stated): every whitelisted relationship leaving a person matched by
\* name or alias is among the returned edges, unless the EdgeCap edges
\* returned leave no room for it, whether or not a chunk is found.
C21_Original ==
  Retrieved =>
    \A r \in FirstHops :
      \/ EdgeOf(r) \in Range(call.result.edges)
      \/ Len(call.result.edges) = EdgeCap

\* the number of fact lines of a context: each starts with the piece "- ("
FactLines(ctx) == Cardinality({j \in 1..Len(ctx) : ctx[j] = "- ("})

\* the smaller of two numbers
Min(a, b) == IF a <= b THEN a ELSE b

\* C22 (as stated): for an Evidence as neo4j_retrieve returns it (every edge
\* has a relation), build_context renders one fact line per edge up to
\* EdgeCap, so the number of fact lines is min(number of edges, EdgeCap), the
\* edge count the retrieved meta event reports when it is at most EdgeCap.
C22_Original ==
  (/\ call.fn = "build_context"
   /\ \A i \in 1..Len(call.retrieved.edges) : call.retrieved.edges[i].rel # "") =>
    \A i \in 1..Len(call.results) :
      FactLines(call.results[i]) = Min(Len(call.retrieved.edges), EdgeCap)

\* the chunks the keyword clause has bound in the rows
KeywordChunks == {call.rows[i].ck : i \in 1..Len(call.rows)} \ {0}

\* C23: when every clause of the query has been applied, the chunks bound by
\* the keyword clause are the chunks whose text contains one of the search
\* terms: the normalised keywords, or, when there is none, the normalised
\* persons and events; with a keyword, persons and events are not searched.
C23_KeywordFallback ==
  (call.fn = "neo4j_retrieve" /\ call.pc = "return") =>
    KeywordChunks =
      {n.id : n \in {m \in Range(CallGraph.nodes) :
                       /\ m.label = "Chunk"
                       /\ \E k \in Range(CallKeywords) : Contains(m.text, k)}}

\* C23 witness: the keywords of the pack are blank, person B is asked for,
\* and the keyword clause has bound the chunk whose text is "B"
C23_Witness ==
  /\ call.fn = "neo4j_retrieve"
  /\ call.pc = "return"
  /\ call.graph = "family"
  /\ call.entity_pack.keywords # <<>>
  /\ call.params.keywords = <<>>
  /\ call.entity_pack.persons = << <<"A">>, <<"B">> >>
  /\ KeywordChunks = {6}

\* the positions in messages of the rows of a conversation
RowsOf(conversation_id) ==
  {i \in 1..Len(messages) : messages[i].conversation_id = conversation_id}

\* C24: the step that loads the history of a turn is taken when the turn's
\* user message is written and no event has been streamed, and the history is
\* the newest N messages of the conversation, oldest first, N being
\* last_n_history (between 1 and 100): each entry is the role and content of
\* a row, later entries are later rows, and no row left out is newer than a
\* row taken.
C24_RecentHistory ==
  [][\A r \in ReqIds :
       (turn[r].pc = "load_history" /\ turn'[r].pc # "load_history") =>
         LET h == turn'[r].history_msgs
             rows == RowsOf(turn[r].conv)
             n == turn[r].last_n
         IN /\ n >= 1 /\ n <= 100
            /\ \E i \in rows : messages[i].role = "user"
                                 /\ messages[i].meta.request_id = r
            /\ events[r] = <<>>
            /\ Len(h) = Min(n, Cardinality(rows))
            /\ \E f \in [1..Len(h) -> rows] :
                 /\ \A i, j \in 1..Len(h) : i < j => f[i] < f[j]
                 /\ \A i \in 1..Len(h) :
                      h[i] = [role |-> messages[f[i]].role,
                              content |-> messages[f[i]].content]
                 /\ \A i \in 1..Len(h) : \A k \in rows :
                      k > f[i] => \E j \in 1..Len(h) : f[j] = k]_vars

\* C24 witness: a history of last_n messages was loaded from a conversation
\* that has more, and nothing has been streamed yet
C24_Witness ==
  \E r \in ReqIds :
    /\ turn[r].pc = "stream_open"
    /\ Len(turn[r].history_msgs) = turn[r].last_n
    /\ Cardinality(RowsOf(turn[r].conv)) > turn[r].last_n
    /\ turn[r].history_msgs[1].role = "assistant"

\* the turns that have called generate_conversation_title for a conversation
TitleCallers(c) == {r \in ReqIds : turn[r].conv = c /\ title_calls[r] > 0}

\* C25: of the chat turns of a conversation, interleaved in any way, at most
\* one calls generate_conversation_title, and it calls it once; a step that
\* changes the title of a conversation changes it from the placeholder to
\* another title, so the title is changed at most once.
C25_TitleOnce ==
  /\ [](\A c \in ConvIds :
          /\ Cardinality(TitleCallers(c)) <= 1
          /\ \A r \in TitleCallers(c) : title_calls[r] = 1)
  /\ [][\A c \in ConvIds :
          (/\ conversations[c].user_id # NoUser
           /\ conversations'[c].title # conversations[c].title) =>
            /\ strip_title(conversations[c].title) = NewChat
            /\ strip_title(conversations'[c].title) # NewChat]_vars

\* C25 witness: two turns of one conversation have both written their
\* assistant message, one of them has called generate_conversation_title and
\* the title is no longer the placeholder
C25_Witness ==
  \E c \in ConvIds :
    /\ strip_title(conversations[c].title) # NewChat
    /\ Cardinality(TitleCallers(c)) = 1
    /\ \A r \in ReqIds :
         /\ turn[r].conv = c
         /\ MsgsOf(r, "assistant") # <<>>

\* C26 (as stated): the history a turn has loaded, which is the end of the
\* message sequence it sends to chat_completion_stream, has the turn's own
\* user question as its last message.
C26_Original ==
  \A r \in ReqIds :
    turn[r].pc \in {"stream_open"} \cup TryAwaits \cup Yields =>
      /\ turn[r].history_msgs # <<>>
      /\ turn[r].history_msgs[Len(turn[r].history_msgs)] =
           [role |-> "user", content |-> turn[r].content]

\* the refresh requests presenting a jti that were answered 200
Refreshed(jti) ==
  {q \in AuthReqs : /\ call.reqs[q].route = "refresh"
                    /\ call.reqs[q].jti = jti
                    /\ call.reqs[q].pc = "done"
                    /\ call.reqs[q].status = 200}

\* C27 (as stated): at most one refresh request presenting a refresh token
\* succeeds, and a refresh that starts after a refresh or a logout with the
\* same token has completed is answered 401.
C27_Original ==
  call.fn = "auth" =>
    /\ \A j \in Jtis : Cardinality(Refreshed(j)) <= 1
    /\ \A q \in AuthReqs :
         (/\ call.reqs[q].route = "refresh"
          /\ call.reqs[q].stale
          /\ call.reqs[q].pc = "done") => call.reqs[q].status = 401

\* the owner of a conversation
OwnerOf(c) == conversations[c].user_id

\* C28: every message of a conversation was written by a request of its
\* owner; a history is loaded only by a request of the owner; get_msgs
\* answers 404 with no message to a user who does not own the conversation
\* and list_convs gives a user only conversations they own; a step that
\* changes the title of a conversation is the title update of a request of
\* its owner; and a step of the finally block taken when the conversation is
\* not found for the user writes nothing.
C28_Isolation ==
  /\ [](/\ \A i \in 1..Len(messages) :
             OwnerOf(messages[i].conversation_id) =
               turn[messages[i].meta.request_id].user
        /\ \A r \in ReqIds :
             turn[r].history_msgs # <<>> => OwnerOf(turn[r].conv) = turn[r].user
        /\ call.fn = "get_msgs" =>
             /\ OwnerOf(call.conv) # call.user =>
                  (call.status = 404 /\ call.msgs = <<>>)
             /\ call.status = 200 => OwnerOf(call.conv) = call.user
        /\ call.fn = "list_convs" =>
             \A i \in 1..Len(call.convs) :
               OwnerOf(call.convs[i].conversation_id) = call.user)
  /\ [][/\ \A c \in ConvIds :
             (OwnerOf(c) # NoUser /\ conversations'[c].title # conversations[c].title) =>
               \E r \in ReqIds : /\ turn[r].pc = "await_update_title"
                                 /\ turn[r].conv = c
                                 /\ turn[r].user = OwnerOf(c)
                                 /\ turn'[r].pc = "ended"
        /\ \A r \in ReqIds :
             (/\ turn[r].pc \in FinallyAwaits
              /\ turn'[r].pc # turn[r].pc
              /\ get_conversation(turn[r].user, turn[r].conv) = NoConv) =>
               (messages' = messages /\ conversations' = conversations)]_vars

\* C28 witness: the conversation has a user and an assistant message written
\* by its owner's request, and the other user's get_msgs was answered 404
C28_Witness ==
  /\ call.fn = "get_msgs"
  /\ call.status = 404
  /\ OwnerOf(call.conv) \in Users \ {call.user}
  /\ Len(OfConversation(call.conv)) = 2
  /\ turn["r1"].user = OwnerOf(call.conv)

\* the database sessions a turn has open: db, the pre-stream session of chat
\* (from the ownership check to the history load), db2, the session of the
\* finally block, and the session of get_db that get_current_user used
OpenSessions(r) ==
  (IF turn[r].pc \in {"add_user_message", "load_history"} THEN {"db"} ELSE {})
  \cup (IF turn[r].pc \in FinallyAwaits THEN {"db2"} ELSE {})
  \cup (IF turn[r].user_db = "open" THEN {"get_db"} ELSE {})

\* C29 (as stated): while a turn is in the try block of event_gen (extracting,
\* retrieving or generating, at an await or at a yield) it has no database
\* session open.
C29_Original ==
  \A r \in ReqIds :
    turn[r].pc \in TryAwaits \cup Yields => OpenSessions(r) = {}

(* ---------------- the graph-store drivers of a process ---------------- *)

\* calls of each kind one process serves
MaxCalls == 3

\* the close functions of the repository a shutdown hook can await
Closers == {"close_driver", "close_neo4j_driver"}

\* AsyncGraphDatabase.driver(...): a new driver object, open, no session
\* borrowed from it
NewDriver(owner) == [owner |-> owner, closes |-> 0, sessions |-> 0]

\* the process before any module is imported: drivers are the driver objects
\* created so far, driver is graphrag_retriever.driver and client_driver is
\* neo4j_client._driver (an index into drivers; 0: the module attribute does
\* not exist yet, or is None)
InitDriver ==
  /\ NoChat
  /\ call = [fn |-> "driver", phase |-> "down", entry |-> "none",
             drivers |-> <<>>, driver |-> 0, client_driver |-> 0,
             retrievals |-> 0, graph_calls |-> 0, stale |-> FALSE]

\* graphrag_retriever is imported: driver = _build_driver() at module level
build_driver(c) ==
  [c EXCEPT !.drivers = Append(c.drivers, NewDriver("graphrag_retriever")),
            !.driver = Len(c.drivers) + 1]

\* init_neo4j_driver: a driver is created only while _driver is None
init_neo4j_driver(c) ==
  IF c.client_driver = 0
  THEN [c EXCEPT !.drivers = Append(c.drivers, NewDriver("neo4j_client")),
                 !.client_driver = Len(c.drivers) + 1]
  ELSE c

\* close_neo4j_driver: closes _driver and resets it to None
close_neo4j_driver(c) ==
  IF c.client_driver = 0 THEN c
  ELSE [c EXCEPT !.drivers[c.client_driver].closes = @ + 1,
                 !.client_driver = 0]

\* close_driver: closes graphrag_retriever.driver, which stays bound
close_driver(c) == [c EXCEPT !.drivers[c.driver].closes = @ + 1]

\* the process is started on src.main: importing conversation_api imports
\* graphrag_retriever, which builds its driver; the next import statement asks
\* graphrag_retriever for close_neo4j_driver, a name that module does not
\* define, and the ImportError ends the process before the app exists
import_main ==
  /\ call.fn = "driver"
  /\ call.phase = "down"
  /\ call' = [build_driver(call) EXCEPT !.phase = "failed",
                                         !.entry = "src.main"]
  /\ UNCHANGED <<conversations, messages, turn, events, upstream, title_calls>>

\* a process that serves conversation_router and graph_router (src.main mounts
\* no graph_router): importing the routers imports graphrag_retriever, which
\* builds its driver, and neo4j_client, whose _driver starts as None
import_routers ==
  /\ call.fn = "driver"
  /\ call.phase = "down"
  /\ call' = [build_driver(call) EXCEPT !.phase = "up", !.entry = "routers"]
  /\ UNCHANGED <<conversations, messages, turn, events, upstream, title_calls>>

\* neo4j_retrieve enters 'async with driver.session(...)': a session is
\* borrowed from graphrag_retriever.driver
retrieve_borrows_session ==
  /\ call.fn = "driver"
  /\ call.phase = "up"
  /\ call.retrievals < MaxCalls
  /\ call' = [call EXCEPT !.drivers[call.driver].sessions = @ + 1,
                          !.retrievals = @ + 1,
                          !.stale = @ \/ call.drivers[call.driver].closes > 0]
  /\ UNCHANGED <<conversations, messages, turn, events, upstream, title_calls>>

\* neo4j_retrieve leaves the 'async with' block: the session is given back
retrieve_releases_session ==
  /\ call.fn = "driver"
  /\ call.driver # 0
  /\ call.drivers[call.driver].sessions > 0
  /\ call' = [call EXCEPT !.drivers[call.driver].sessions = @ - 1]
  /\ UNCHANGED <<conversations, messages, turn, events, upstream, title_calls>>

\* a graph-API endpoint is called: its dependency get_neo4j_driver creates
\* _driver if it is None and hands it over, and the endpoint opens a session
\* on it
graph_api_begins ==
  /\ call.fn = "driver"
  /\ call.phase = "up"
  /\ call.graph_calls < MaxCalls
  /\ call' = [init_neo4j_driver(call) EXCEPT
                !.drivers[init_neo4j_driver(call).client_driver].sessions =
                   @ + 1,
                !.graph_calls = @ + 1]
  /\ UNCHANGED <<conversations, messages, turn, events, upstream, title_calls>>

\* the endpoint leaves its 'async with driver.session(...)' block
graph_api_ends ==
  /\ call.fn = "driver"
  /\ call.client_driver # 0
  /\ call.drivers[call.client_driver].sessions > 0
  /\ call' = [call EXCEPT !.drivers[call.client_driver].sessions = @ - 1]
  /\ UNCHANGED <<conversations, messages, turn, events, upstream, title_calls>>

\* the server stops once the requests in flight have been answered and runs
\* the shutdown hook, which awaits some of the close functions (_shutdown of
\* src.main awaits close_neo4j_driver; nothing in the repository awaits
\* close_driver)
shutdown(closers) ==
  /\ call.fn = "driver"
  /\ call.phase = "up"
  /\ \A d \in DOMAIN call.drivers : call.drivers[d].sessions = 0
  /\ call' =
       [(IF "close_neo4j_driver" \in closers
         THEN close_neo4j_driver(IF "close_driver" \in closers
                                 THEN close_driver(call) ELSE call)
         ELSE IF "close_driver" \in closers THEN close_driver(call) ELSE call)
        EXCEPT !.phase = "stopped"]
  /\ UNCHANGED <<conversations, messages, turn, events, upstream, title_calls>>

NextDriver ==
  \/ import_main
  \/ import_routers
  \/ retrieve_borrows_session
  \/ retrieve_releases_session
  \/ graph_api_begins
  \/ graph_api_ends
  \/ \E closers \in SUBSET Closers : shutdown(closers)

SpecDriver == InitDriver /\ [][NextDriver]_vars

\* C30 (as stated): over any sequence of process start, retrieval calls,
\* graph-API calls and shutdown, at most one driver object is ever created, it
\* is not closed while the process serves and has been closed exactly once
\* when the process has shut down, and no retrieval session is borrowed from
\* a closed driver.
C30_Original ==
  call.fn = "driver" =>
    /\ Len(call.drivers) <= 1
    /\ \A d \in DOMAIN call.drivers :
         call.drivers[d].closes = (IF call.phase = "stopped" THEN 1 ELSE 0)
    /\ ~call.stale

====
